---- MODULE Spec2Model ----
(***************************************************************************)
(* Rightmove property scraper (src/src/main.js): the crawl as a state      *)
(* machine.  One action is one synchronous segment of a request handler,   *)
(* i.e. the code between two suspension points (await), which is the unit  *)
(* of atomicity of the JavaScript event loop.  The request queue, the      *)
(* worker pool and the dataset are the external collaborators (Crawlee /   *)
(* Apify); their awaited calls resolve or reject.  The pacing sleep that    *)
(* ends a handler touches no state and is part of the handler's last step. *)
(***************************************************************************)
EXTENDS Integers, Sequences, FiniteSets, Bags, TLC

\* ------------------------------------------------------------------ bounds
\* Listing URLs the site can show are 1..NumUrls; card 0 is a card without
\* a property link.
NumUrls == 4
\* The listings the site shows are 1..SiteUrls in the runs with failures
\* and 1..NumUrls in the runs without.
SiteUrls == 3
\* Largest maxResults / maxPages the run is started with; the runs without
\* failures are started with maxResults = NumUrls.
MaxResultsBound == 3
MaxPagesBound == 2
\* Most cards on one search page.
MaxCards == 2
\* The source's values are 15 (DATASET_BATCH_SIZE), 5 (MAX_RETRIES) and
\* 4 (maxConcurrency); they are scaled down so that the threshold flush, the
\* retry ceiling and the pool limit are all reached within the bounds above.
DATASET_BATCH_SIZE == 2
MAX_RETRIES == 1
maxConcurrency == 2

NULL == "null"
Urls == 1 .. NumUrls
Cards == 0 .. NumUrls

Max(a, b) == IF a >= b THEN a ELSE b

Min(a, b) == IF a <= b THEN a ELSE b

\* ------------------------------------------------------------------- texts
\* A text is the sequence of its pieces, each a word, a host name or a single
\* separator character, and is what the pieces spell one after the other; no
\* text has two spellings.  NoText is null or undefined, <<>> is the empty
\* string.
NoText == <<NULL>>

Blank == <<" ">>

\* \s, \d and \w of the regular expressions.
IsSpace(c) == c \in {" ", "\t"}

Digits == {"1", "4", "5"}

IsDigit(c) == c \in Digits

IsWord(c) == c \notin {" ", "\t", ",", ".", ":", "/", "#", "?", "=", "-", "&", "£"}

\* toLowerCase and the i flag, piece by piece.
LowerCase ==
    ("M" :> "m") @@ ("K" :> "k") @@ ("Flat" :> "flat") @@ ("House" :> "house")
    @@ ("Semi" :> "semi") @@ ("Detached" :> "detached")
    @@ ("Terraced" :> "terraced") @@ ("Bungalow" :> "bungalow")
    @@ ("Maisonette" :> "maisonette") @@ ("Apartment" :> "apartment")
    @@ ("Studio" :> "studio") @@ ("Duplex" :> "duplex")
    @@ ("Penthouse" :> "penthouse") @@ ("Properties" :> "properties")
    @@ ("propertyId" :> "propertyid")

toLowerCase(c) == IF c \in DOMAIN LowerCase THEN LowerCase[c] ELSE c

\* replace(/\s+/g, ' '): every run of whitespace becomes one space.
RECURSIVE collapse(_)
collapse(text) ==
    IF text = <<>> THEN <<>>
    ELSE IF IsSpace(Head(text))
    THEN IF Len(text) >= 2 /\ IsSpace(text[2])
         THEN collapse(Tail(text))
         ELSE <<" ">> \o collapse(Tail(text))
    ELSE <<Head(text)>> \o collapse(Tail(text))

\* trim()
RECURSIVE trim(_)
trim(text) ==
    IF text = <<>> THEN <<>>
    ELSE IF IsSpace(Head(text)) THEN trim(Tail(text))
    ELSE IF IsSpace(text[Len(text)]) THEN trim(SubSeq(text, 1, Len(text) - 1))
    ELSE text

cleanText(text) ==
    IF text = NoText THEN NoText
    ELSE LET cleaned == trim(collapse(text))
         IN  IF Len(cleaned) > 0 THEN cleaned ELSE NoText

\* JavaScript truthiness of a string-or-null value.
Truthy(v) == v # NoText /\ v # <<>>

OrElse(a, b) == IF Truthy(a) THEN a ELSE b

\* uniqueArray: drop falsy items, clean strings, drop what cleans to nothing,
\* keep the first occurrence of each value.
RECURSIVE uniqueArrayFrom(_, _)
uniqueArrayFrom(items, result) ==
    IF items = <<>> THEN result
    ELSE LET item == Head(items)
             value == cleanText(item)
         IN  IF ~Truthy(item) \/ ~Truthy(value)
                \/ \E i \in 1 .. Len(result) : result[i] = value
             THEN uniqueArrayFrom(Tail(items), result)
             ELSE uniqueArrayFrom(Tail(items), Append(result, value))

uniqueArray(items) == uniqueArrayFrom(items, <<>>)

\* ---------------------------------------------------------- property types
\* PROPERTY_TYPE_PATTERNS: the first pattern is /semi[-\s]?detached/i, the
\* others are /\bword\b/i.
PROPERTY_TYPE_PATTERNS ==
    << [re |-> "semi-detached", value |-> <<"Semi", "-", "Detached">>],
       [re |-> "detached", value |-> <<"Detached">>],
       [re |-> "terraced", value |-> <<"Terraced">>],
       [re |-> "bungalow", value |-> <<"Bungalow">>],
       [re |-> "maisonette", value |-> <<"Maisonette">>],
       [re |-> "apartment", value |-> <<"Apartment">>],
       [re |-> "flat", value |-> <<"Flat">>],
       [re |-> "studio", value |-> <<"Studio">>],
       [re |-> "duplex", value |-> <<"Duplex">>],
       [re |-> "penthouse", value |-> <<"Penthouse">>],
       [re |-> "house", value |-> <<"House">>] >>

\* re.test(text)
TestPattern(re, text) ==
    IF re = "semi-detached"
    THEN \E i \in DOMAIN text :
            /\ toLowerCase(text[i]) = "semi"
            /\ \/ i + 1 <= Len(text) /\ toLowerCase(text[i + 1]) = "detached"
               \/ /\ i + 2 <= Len(text)
                  /\ text[i + 1] = "-" \/ IsSpace(text[i + 1])
                  /\ toLowerCase(text[i + 2]) = "detached"
    ELSE \E i \in DOMAIN text :
            /\ toLowerCase(text[i]) = re
            /\ i = 1 \/ ~IsWord(text[i - 1])
            /\ i = Len(text) \/ ~IsWord(text[i + 1])

inferPropertyType(text) ==
    IF ~Truthy(text) THEN NoText
    ELSE LET hits == { i \in DOMAIN PROPERTY_TYPE_PATTERNS :
                         TestPattern(PROPERTY_TYPE_PATTERNS[i].re, text) }
         IN  IF hits = {} THEN NoText
             ELSE PROPERTY_TYPE_PATTERNS[CHOOSE i \in hits :
                                             \A j \in hits : i <= j].value

\* -------------------------------------------------------------------- urls
BASE_URL == <<"https", ":", "/", "/", "www.rightmove.co.uk">>

\* url.startsWith('http'), url.startsWith('//'), url.startsWith('/')
StartsWithHttp(url) == url # <<>> /\ url[1] \in {"http", "https"}

StartsWithSlashes(url) == Len(url) >= 2 /\ url[1] = "/" /\ url[2] = "/"

StartsWithSlash(url) == url # <<>> /\ url[1] = "/"

ensureAbsoluteUrl(url) ==
    IF url = NoText \/ url = <<>> THEN NoText
    ELSE IF StartsWithHttp(url) THEN url
    ELSE IF StartsWithSlashes(url) THEN <<"https", ":">> \o url
    ELSE BASE_URL \o (IF StartsWithSlash(url) THEN <<>> ELSE <<"/">>) \o url

\* ------------------------------------------------------------------ prices
\* A price amount as JavaScript holds it: a number, null, undefined (no such
\* key), NaN, a numeric string ("250000") or any other text ("POA").  A
\* number is a double: the one ulp units in the last place above the double
\* nearest to n * 10^e, with n not a multiple of ten.  A decimal literal and
\* the result of parseFloat are the nearest double itself (ulp 0); only
\* arithmetic leaves it, as 515.55 * 1000 = 515549.99999999994 does, the
\* double one unit below 515550.
RECURSIVE Decimal(_, _)
Decimal(n, e) ==
    IF n = 0 THEN [t |-> "number", n |-> 0, e |-> 0, ulp |-> 0]
    ELSE IF n % 10 = 0 THEN Decimal(n \div 10, e + 1)
    ELSE [t |-> "number", n |-> n, e |-> e, ulp |-> 0]

Num(n) == Decimal(n, 0)
NumString(n) == [Num(n) EXCEPT !.t = "numeric-string"]
AmountNull == [t |-> "null", n |-> 0, e |-> 0, ulp |-> 0]
AmountUndefined == [t |-> "undefined", n |-> 0, e |-> 0, ulp |-> 0]
AmountNaN == [t |-> "NaN", n |-> 0, e |-> 0, ulp |-> 0]
AmountText == [t |-> "text", n |-> 0, e |-> 0, ulp |-> 0]

\* Number(amount)
ToNumber(amount) ==
    CASE amount.t \in {"number", "numeric-string"} -> [amount EXCEPT !.t = "number"]
      [] amount.t = "null" -> Num(0)
      [] OTHER -> AmountNaN

\* Number.isFinite
IsFinite(amount) == amount.t = "number"

\* Truthiness of an amount.
AmountTruthy(amount) ==
    \/ amount.t = "number" /\ amount.n # 0
    \/ amount.t \in {"numeric-string", "text"}

\* The arithmetic of doubles.  A positive double is its significand, the
\* bits from the leading 1 to the last 1 (at most Precision of them, most
\* significant first), and the exponent of its leading bit.  Prices are far
\* from the subnormal range and from overflow.
Precision == 53

Double(bits, exp) == [sig |-> bits, exp |-> exp]

RECURSIVE Pow10(_)
Pow10(e) == IF e = 0 THEN 1 ELSE 10 * Pow10(e - 1)

RECURSIVE Pow2(_)
Pow2(e) == IF e = 0 THEN 1 ELSE 2 * Pow2(e - 1)

\* Natural numbers of any size are the sequences of their bits, and the
\* arithmetic on them goes ten bits at a time.  BitsOf is the natural number
\* n in w bits, Bits the bits of n from its leading 1 (none for 0).
BitsOf(n, w) == [i \in 1 .. w |-> (n \div Pow2(w - i)) % 2]

Width(n) == CHOOSE k \in 0 .. 30 : n < Pow2(k) /\ (k = 0 \/ n >= Pow2(k - 1))

Bits(n) == BitsOf(n, Width(n))

\* The number that a few bits spell.
RECURSIVE ValueOf(_)
ValueOf(bits) ==
    IF bits = <<>> THEN 0
    ELSE 2 * ValueOf(SubSeq(bits, 1, Len(bits) - 1)) + bits[Len(bits)]

\* The first ten bits and the rest, the last ten bits and the rest.
HighTen(bits) == SubSeq(bits, 1, Min(Len(bits), 10))

AfterTen(bits) == SubSeq(bits, Min(Len(bits), 10) + 1, Len(bits))

LowTen(bits) == SubSeq(bits, Max(Len(bits) - 10, 0) + 1, Len(bits))

BeforeTen(bits) == SubSeq(bits, 1, Max(Len(bits) - 10, 0))

\* The position of the first and of the last bit b; 0 when there is none.
Least(at) == IF at = {} THEN 0 ELSE CHOOSE i \in at : \A j \in at : i <= j

Greatest(at) == IF at = {} THEN 0 ELSE CHOOSE i \in at : \A j \in at : i >= j

FirstOf(bits, b) == Least({ i \in DOMAIN bits : bits[i] = b })

LastOf(bits, b) == Greatest({ i \in DOMAIN bits : bits[i] = b })

\* The bits without their trailing zeros.
Strip(bits) == SubSeq(bits, 1, LastOf(bits, 1))

\* The bits with trailing zeros up to Precision.
Pad(bits) == [i \in 1 .. Precision |-> IF i <= Len(bits) THEN bits[i] ELSE 0]

\* bits * c + carry, exactly, for c up to a million: the last ten bits make
\* x, whose w low bits stay and whose other bits are carried.
RECURSIVE MulBits(_, _, _)
MulCarry(bits, w, c, x) ==
    MulBits(bits, c, x \div Pow2(w)) \o BitsOf(x % Pow2(w), w)

MulBits(bits, c, carry) ==
    IF bits = <<>> THEN Bits(carry)
    ELSE MulCarry(BeforeTen(bits), Len(LowTen(bits)), c,
                  ValueOf(LowTen(bits)) * c + carry)

\* bits * 10^e, exactly.
RECURSIVE MulPow10(_, _)
MulPow10(bits, e) ==
    IF e = 0 THEN bits ELSE MulPow10(MulBits(bits, 10, 0), e - 1)

\* bits + 1 and bits - 1 in the same width: the bits up to the last 0, or
\* the last 1, which flips as the bits after it do.  All ones wrap to all
\* zeros.
Carried(bits, p, b) ==
    [i \in DOMAIN bits |-> IF i < p THEN bits[i] ELSE IF i = p THEN b ELSE 1 - b]

Inc(bits) == Carried(bits, LastOf(bits, 0), 1)

Dec(bits) == Carried(bits, LastOf(bits, 1), 0)

\* The double of a significand that was incremented.
Carry(up, exp) ==
    IF up[1] = 0 THEN Double(<<1>>, exp + 1) ELSE Double(Strip(up), exp)

\* The next double above and the next double below.
Succ(d) == Carry(Inc(Pad(d.sig)), d.exp)

Pred(d) ==
    IF d.sig = <<1>> THEN Double([i \in 1 .. Precision |-> 1], d.exp - 1)
    ELSE Double(Strip(Dec(Pad(d.sig))), d.exp)

\* Rounding to the nearest double, ties to the even significand, of the
\* value whose bits from its leading 1 are given, exp the exponent of that
\* leading bit; inexact says that the value has more below the given bits.
RoundsUp(bits, inexact) ==
    /\ bits[Precision + 1] = 1
    /\ \/ inexact
       \/ bits[Precision] = 1
       \/ \E i \in Precision + 2 .. Len(bits) : bits[i] = 1

RoundToNearest(bits, exp, inexact) ==
    IF Len(bits) <= Precision THEN Double(Strip(bits), exp)
    ELSE IF RoundsUp(bits, inexact)
    THEN Carry(Inc(SubSeq(bits, 1, Precision)), exp)
    ELSE Double(Strip(SubSeq(bits, 1, Precision)), exp)

\* The quotient of the number with bits num, followed by as many binary
\* places as needed, by den, a million at most: its bits (more than
\* Precision from the leading 1, or fewer when the division ends), what is
\* left of num, and the remainder.  The next w bits of num come down to the
\* remainder, which makes r and w bits of the quotient.
Significant(len, first) == IF first = 0 THEN 0 ELSE len - first + 1

RECURSIVE DivBits(_, _, _, _)
DivDown(num, w, r, den, quot) ==
    DivBits(num, r % den, den, quot \o BitsOf(r \div den, w))

DivBits(num, rem, den, quot) ==
    IF \/ num = <<>> /\ rem = 0
       \/ Significant(Len(quot), FirstOf(quot, 1)) > Precision
    THEN [quot |-> quot, left |-> num, rem |-> rem]
    ELSE IF num = <<>> THEN DivDown(num, 10, rem * Pow2(10), den, quot)
    ELSE DivDown(AfterTen(num), Len(HighTen(num)),
                 rem * Pow2(Len(HighTen(num))) + ValueOf(HighTen(num)),
                 den, quot)

\* The double nearest to the quotient q of a number of len bits, whose
\* leading 1 is at position lead.
RoundQuotient(q, len, lead) ==
    RoundToNearest(SubSeq(q.quot, lead, Len(q.quot)), len - lead,
                   q.rem # 0 \/ FirstOf(q.left, 1) > 0)

NearestQuotient(q, len) == RoundQuotient(q, len, FirstOf(q.quot, 1))

NearestRatio(num, den) == NearestQuotient(DivBits(num, 0, den, <<>>), Len(num))

\* The double nearest to n * 10^e, n positive and with six decimals at
\* most: what a decimal literal and parseFloat give.
NearestDouble(n, e) ==
    NearestRatio(MulPow10(Bits(n), IF e > 0 THEN e ELSE 0),
                 Pow10(IF e < 0 THEN 0 - e ELSE 0))

\* d * c for a natural number c that is a double itself: the exact product,
\* rounded.
RoundProduct(product, exp) == RoundToNearest(product, exp + Len(product), FALSE)

MulDouble(d, c) == RoundProduct(MulBits(d.sig, c, 0), d.exp - Len(d.sig))

\* The double j units in the last place above d.
RECURSIVE Step(_, _)
Step(d, j) ==
    IF j = 0 THEN d
    ELSE IF j > 0 THEN Step(Succ(d), j - 1)
    ELSE Step(Pred(d), j + 1)

\* How many units in the last place the product of the double nearest to
\* n * 10^e and the double 10^k, rounded to a double, is above the double
\* nearest to n * 10^(e + k): j or, looking further and further on either
\* side, the first that fits after j.
RECURSIVE UlpsOfProduct(_, _, _, _)
UlpsOfProduct(n, e, k, j) ==
    IF Step(NearestDouble(n, e + k), j) = MulDouble(NearestDouble(n, e), Pow10(k))
    THEN j
    ELSE UlpsOfProduct(n, e, k, IF j > 0 THEN 0 - j ELSE 1 - j)

\* amount *= 10^k, for an amount that parseFloat returned: the product of
\* the double and the double 10^k, rounded to a double.
Times(amount, k) ==
    IF amount.n = 0 THEN amount
    ELSE [Decimal(amount.n, amount.e + k) EXCEPT
             !.ulp = UlpsOfProduct(amount.n, amount.e, k, 0)]

\* A price object, and the absence of one (price null or undefined).
Price(amount, currency, displayPrice) ==
    [object |-> TRUE, amount |-> amount, currency |-> currency,
     displayPrice |-> displayPrice]

NoPrice ==
    [object |-> FALSE, amount |-> AmountUndefined, currency |-> NoText,
     displayPrice |-> NoText]

GBP == <<"GBP">>

\* replace(/,/g, '')
NotComma(c) == c # ","

removeCommas(text) == SelectSeq(text, NotComma)

\* The last digit of the run of digits that starts at i.
RECURSIVE DigitRunEnd(_, _)
DigitRunEnd(text, i) ==
    IF i + 1 <= Len(text) /\ IsDigit(text[i + 1])
    THEN DigitRunEnd(text, i + 1)
    ELSE i

\* The end of the match of \d+(?:\.\d+)? that starts at digit i.
NumberEnd(text, i) ==
    LET j == DigitRunEnd(text, i)
    IN  IF j + 2 <= Len(text) /\ text[j + 1] = "." /\ IsDigit(text[j + 2])
        THEN DigitRunEnd(text, j + 2)
        ELSE j

DigitValue(c) == CASE c = "1" -> 1 [] c = "4" -> 4 [] c = "5" -> 5

RECURSIVE DigitsValue(_, _)
DigitsValue(digits, acc) ==
    IF digits = <<>> THEN acc
    ELSE DigitsValue(Tail(digits), 10 * acc + DigitValue(Head(digits)))

\* parseFloat of a token matched by \d+(?:\.\d+)?
parseFloat(token) ==
    LET dots == { i \in DOMAIN token : token[i] = "." }
        decimals == IF dots = {} THEN 0
                    ELSE Len(token) - (CHOOSE i \in dots : TRUE)
    IN  Decimal(DigitsValue(SelectSeq(token, IsDigit), 0), 0 - decimals)

RECURSIVE SkipSpaces(_, _)
SkipSpaces(text, i) ==
    IF i <= Len(text) /\ IsSpace(text[i]) THEN SkipSpaces(text, i + 1) ELSE i

\* /\b\d+(?:\.\d+)?\s*m\b/.test(text), and the same with k
TestSuffix(text, unit) ==
    \E i \in DOMAIN text :
        /\ IsDigit(text[i])
        /\ i = 1 \/ ~IsWord(text[i - 1])
        /\ LET s == SkipSpaces(text, NumberEnd(text, i) + 1)
           IN  /\ s <= Len(text)
               /\ text[s] = unit
               /\ s = Len(text) \/ ~IsWord(text[s + 1])

\* The multiplier parsePrice applies, as a power of ten.
multiplier(lower) ==
    IF TestSuffix(lower, "m") \/ \E i \in DOMAIN lower : lower[i] = "million"
    THEN 6
    ELSE IF TestSuffix(lower, "k") THEN 3
    ELSE 0

\* parsePrice; NoPrice is its null.
parsePrice(priceText) ==
    IF ~Truthy(priceText) THEN NoPrice
    ELSE
      LET normalized == removeCommas(priceText)
          digits == { i \in DOMAIN normalized : IsDigit(normalized[i]) }
      IN  IF digits = {} THEN NoPrice
          ELSE
            LET first == CHOOSE i \in digits : \A j \in digits : i <= j
                amount == parseFloat(SubSeq(normalized, first,
                                            NumberEnd(normalized, first)))
                lower == [i \in DOMAIN normalized |-> toLowerCase(normalized[i])]
            IN  Price(Times(amount, multiplier(lower)), GBP,
                      cleanText(priceText))

\* ------------------------------------------------------- records and pages
\* A list-valued field that is not set (undefined or null).
Absent == <<<<"absent">>>>

\* A property record.  bedrooms and bathrooms are numbers that the pipeline
\* only copies and tests for null: a number is the text of its digits.
\* agentDetails, details, features, image, propertyId, isNewHome and
\* scrapedAt are left out.
Partial(u, a, t, d, pt, bed, bath, ag, pr, im, fl, kf, m) ==
    [url |-> u, address |-> a, title |-> t, description |-> d,
     propertyType |-> pt, bedrooms |-> bed, bathrooms |-> bath, agent |-> ag,
     price |-> pr, images |-> im, floorplans |-> fl, keyFeatures |-> kf,
     extractionMethod |-> m]

\* A record with the listing url, address, title and extractionMethod, and
\* nothing else set.
Property(u, a, t, m) ==
    Partial(u, a, t, NoText, NoText, NoText, NoText, NoText, NoPrice, Absent,
            Absent, Absent, m)

\* What the site serves.  A card has a link (cards 1..NumUrls) or none
\* (card 0).  A card is its link, the text of its address element, the text
\* of its price element (NoText when it has none) and its whole text; a card
\* without any text yields no address.
Card(link, address, priceText, text) ==
    [link |-> link, address |-> address, priceText |-> priceText, text |-> text]

CardOf(u) ==
    CASE u = 0 -> Card(0, NoText, NoText, <<>>)
      [] u % 4 = 1 ->
           Card(u, <<"Acacia">>, <<"£", "1", "5", "k">>,
                <<"Acacia", " ", "£", "1", "5", "k">>)
      [] u % 4 = 3 ->
           Card(u, <<"Acacia">>, <<"POA">>, <<"Acacia", " ", "POA">>)
      [] OTHER -> Card(u, NoText, NoText, <<>>)

\* extractPropertyCard: null for a card without a property link, else the
\* card-level partial record.
NoProperty == Property(0, NoText, NoText, NULL)

extractPropertyCard(card) ==
    LET c == CardOf(card)
        priceText == cleanText(c.priceText)
        parsed == IF Truthy(priceText) THEN parsePrice(priceText) ELSE NoPrice
        price == IF ~parsed.object /\ Truthy(priceText)
                 THEN Price(AmountNull, GBP, priceText)
                 ELSE parsed
        address == OrElse(cleanText(c.address), cleanText(c.text))
    IN  IF c.link = 0 THEN NoProperty
        ELSE [Property(c.link, address, NoText, NULL) EXCEPT
                 !.price = price,
                 !.propertyType =
                     inferPropertyType(OrElse(address, <<>>) \o <<" ">> \o c.text)]

\* A structured payload (embedded application state, API answer), reduced
\* to its address, title, propertyType and price keys.  The price is absent
\* ("none"), an object with amount and displayPrice, a number, or a text.
PayloadPrice(kind, amount, text) == [kind |-> kind, amount |-> amount, text |-> text]

NoPayloadPrice == PayloadPrice("none", AmountUndefined, NoText)

Payload(found, address, title, propertyType, price) ==
    [found |-> found, address |-> address, title |-> title,
     propertyType |-> propertyType, price |-> price, images |-> Absent,
     floorplans |-> Absent, keyFeatures |-> Absent]

\* A payload with its images, floorplans and keyFeatures arrays of strings.
PayloadWithLists(payload, images, floorplans, keyFeatures) ==
    [payload EXCEPT !.images = images, !.floorplans = floorplans,
                    !.keyFeatures = keyFeatures]

NoPayload == Payload(FALSE, NoText, NoText, NoText, NoPayloadPrice)

\* Number(x) || null
NumberOrNull(amount) ==
    LET number == ToNumber(amount)
    IN  IF AmountTruthy(number) THEN number ELSE AmountNull

\* extractImagesFromPayload and extractFloorplansFromPayload on an array of
\* strings: ensureAbsoluteUrl(cleanText(url)) of each, the null ones dropped,
\* then uniqueArray.
extractUrlsFromPayload(items) ==
    IF items = Absent THEN <<>>
    ELSE uniqueArray(SelectSeq([i \in DOMAIN items |->
                                   ensureAbsoluteUrl(cleanText(items[i]))],
                               Truthy))

\* The number of characters of a text; the words listed are those the
\* key-feature items of the pages and of the payloads are made of, "Long"
\* being a run of 200 letters.
PieceLength(c) ==
    CASE c = "f1" -> 2
      [] c = "Garden" -> 6
      [] c = "Garage" -> 6
      [] c = "Long" -> 200
      [] OTHER -> 1

RECURSIVE Length(_)
Length(text) ==
    IF text = <<>> THEN 0 ELSE PieceLength(Head(text)) + Length(Tail(text))

\* addFeature: if (text && text.length < 200) features.push(text)
IsPayloadFeature(text) == Truthy(text) /\ Length(text) < 200

\* extractKeyFeaturesFromPayload on an array of strings.
extractKeyFeaturesFromPayload(items) ==
    IF items = Absent THEN <<>>
    ELSE uniqueArray(SelectSeq([i \in DOMAIN items |-> cleanText(items[i])],
                               IsPayloadFeature))

\* if (images.length) extracted.images = images
IfAny(items) == IF items = <<>> THEN Absent ELSE items

\* extractPropertyFromPayload
extractPropertyFromPayload(payload) ==
    LET priceText == cleanText(payload.price.text)
        parsed == parsePrice(priceText)
    IN  [Property(0, cleanText(payload.address), cleanText(payload.title), NULL)
           EXCEPT
             !.propertyType = cleanText(payload.propertyType),
             !.images = IfAny(extractUrlsFromPayload(payload.images)),
             !.floorplans = IfAny(extractUrlsFromPayload(payload.floorplans)),
             !.keyFeatures =
                 IfAny(extractKeyFeaturesFromPayload(payload.keyFeatures)),
             !.price =
                 CASE payload.price.kind = "object" ->
                        Price(NumberOrNull(payload.price.amount), GBP,
                              cleanText(payload.price.text))
                   [] payload.price.kind = "number" ->
                        Price(payload.price.amount, GBP, NoText)
                   [] payload.price.kind = "text" /\ Truthy(priceText) ->
                        IF parsed.object THEN parsed
                        ELSE Price(AmountNull, GBP, priceText)
                   [] OTHER -> NoPrice]

\* Object.keys(extracted).length
IsEmptyExtraction(extracted) == extracted = Property(0, NoText, NoText, NULL)

\* A linked-data offer, reduced to its price: the value and its text.
Offer(present, price, text) == [present |-> present, price |-> price, text |-> text]

NoOffer == Offer(FALSE, AmountUndefined, NoText)

\* The detail page of a listing, reduced to what extractPropertyDetails and
\* the API fallback read for address, title, propertyType and price:
\*   ld           "none" | "product" | "null" (a linked-data block whose JSON
\*                is the literal null, on which d['@type'] throws)
\*   ldType       @type of the linked-data entry
\*   ldName       name of the linked-data entry
\*   ldOffer      its offers
\*   emb          the embedded payload found, if any
\*   h1           text of the first h1
\*   detailsType  value of the "property type" row of the detail table
\*   api          the payload the API fallback returned, if it was reached
DetailPage(ld, ldType, ldName, ldOffer, emb, h1, detailsType, api) ==
    [ld |-> ld, ldType |-> ldType, ldName |-> ldName, ldOffer |-> ldOffer,
     emb |-> emb, h1 |-> h1, detailsType |-> detailsType, api |-> api,
     ldImage |-> Absent, gallery |-> <<>>, floorplanImgs |-> <<>>,
     featureItems |-> <<>>, moreEmb |-> <<>>]

\* A detail page with the image array of its linked-data entry, the src of
\* its gallery images and of its floorplan images, and the texts of its
\* key-feature list items.
PageWithLists(page, ldImage, gallery, floorplanImgs, featureItems) ==
    [page EXCEPT !.ldImage = ldImage, !.gallery = gallery,
                 !.floorplanImgs = floorplanImgs,
                 !.featureItems = featureItems]

DetailPageOf(u) ==
    CASE u % 4 = 1 ->
           DetailPage("product", <<"Product">>, <<"LdName">>,
                      Offer(TRUE, NumString(5), <<"5">>), NoPayload, <<"H1">>,
                      NoText, NoPayload)
      [] u % 4 = 2 ->
           DetailPage("none", NoText, NoText, NoOffer, NoPayload, NoText,
                      NoText, NoPayload)
      [] u % 4 = 3 ->
           DetailPage("none", NoText, NoText, NoOffer,
                      Payload(TRUE, <<"EmbAddr">>, NoText, NoText,
                              PayloadPrice("object", AmountUndefined, NoText)),
                      NoText, NoText,
                      Payload(TRUE, NoText, <<"ApiTitle">>, NoText,
                              NoPayloadPrice))
      [] OTHER ->
           DetailPage("null", NoText, NoText, NoOffer, NoPayload, <<"H1">>,
                      NoText, NoPayload)

\* mergePropertyData.  setIfMissing(key, value): a value that is not null
\* fills a field that is null, undefined or ''.
setIfMissing(current, value) ==
    IF value = NoText THEN current
    ELSE IF current = NoText \/ current = <<>> THEN value
    ELSE current

\* if (extra.price && (!merged.price || (!merged.price.amount &&
\*                                       !merged.price.displayPrice)))
mergePrice(current, extra) ==
    IF /\ extra.object
       /\ \/ ~current.object
          \/ ~AmountTruthy(current.amount) /\ ~Truthy(current.displayPrice)
    THEN extra
    ELSE current

\* if (extra.images) merged.images = uniqueArray([...(merged.images || []),
\*                                                ...extra.images])
mergeList(current, extra) ==
    IF extra = Absent THEN current
    ELSE uniqueArray((IF current = Absent THEN <<>> ELSE current) \o extra)

mergePropertyData(base, extra) ==
    [base EXCEPT
        !.address = setIfMissing(base.address, extra.address),
        !.title = setIfMissing(base.title, extra.title),
        !.description = setIfMissing(base.description, extra.description),
        !.propertyType = setIfMissing(base.propertyType, extra.propertyType),
        !.bedrooms = setIfMissing(base.bedrooms, extra.bedrooms),
        !.bathrooms = setIfMissing(base.bathrooms, extra.bathrooms),
        !.agent = setIfMissing(base.agent, extra.agent),
        !.price = mergePrice(base.price, extra.price),
        !.images = mergeList(base.images, extra.images),
        !.floorplans = mergeList(base.floorplans, extra.floorplans),
        !.keyFeatures = mergeList(base.keyFeatures, extra.keyFeatures)]

\* normalizeProperty.
normalizePrice(price) ==
    IF ~price.object THEN price
    ELSE LET amount == ToNumber(price.amount)
         IN  Price(IF IsFinite(amount) THEN amount ELSE AmountNull,
                   OrElse(price.currency, GBP),
                   cleanText(price.displayPrice))

\* images.map(ensureAbsoluteUrl)
mapEnsureAbsoluteUrl(items) ==
    [i \in DOMAIN items |-> ensureAbsoluteUrl(items[i])]

normalizeProperty(property) ==
    LET address == cleanText(property.address)
        title == OrElse(cleanText(property.title), address)
        description == cleanText(property.description)
        propertyType == cleanText(property.propertyType)
    IN  [property EXCEPT
            !.address = address,
            !.title = title,
            !.description = description,
            !.propertyType =
                IF Truthy(propertyType) THEN propertyType
                ELSE inferPropertyType(
                         OrElse(title, <<>>) \o <<" ">>
                         \o OrElse(description, <<>>) \o <<" ">>
                         \o OrElse(address, <<>>)),
            !.agent = cleanText(property.agent),
            !.images =
                IF @ = Absent THEN @ ELSE uniqueArray(mapEnsureAbsoluteUrl(@)),
            !.floorplans =
                IF @ = Absent THEN @ ELSE uniqueArray(mapEnsureAbsoluteUrl(@)),
            !.keyFeatures = IF @ = Absent THEN @ ELSE uniqueArray(@),
            !.price = normalizePrice(property.price)]

\* extractPropertyDetails: the linked-data pass assigns title and price and
\* fills propertyType, the embedded pass merges, the HTML pass fills title
\* from h1 and propertyType from the detail table or by inference;
\* extractionMethod records which structured source was used, and is
\* "failed" only in the catch.
\* The payloads of the embedded blobs of the page, in the order of
\* extractEmbeddedJson.
EmbeddedOf(page) == <<page.emb>> \o page.moreEmb

\* if (!payload) continue; ... if (Object.keys(extracted).length)
IsUsed(payload) ==
    payload.found /\ ~IsEmptyExtraction(extractPropertyFromPayload(payload))

UsedEmbedded(page) ==
    \E i \in DOMAIN EmbeddedOf(page) : IsUsed(EmbeddedOf(page)[i])

extractionMethodOf(page) ==
    IF page.ld = "null" THEN "failed"
    ELSE IF page.ld = "product"
         THEN (IF UsedEmbedded(page) THEN "json-ld+embedded" ELSE "json-ld")
         ELSE (IF UsedEmbedded(page) THEN "embedded-json" ELSE "html-parse")

\* if (propertyJsonLd) { ... }
jsonLdPass(page, propertyData) ==
    IF page.ld # "product" THEN propertyData
    ELSE [propertyData EXCEPT
            !.title = IF Truthy(page.ldName) THEN page.ldName ELSE @,
            !.images = IF page.ldImage # Absent THEN page.ldImage ELSE @,
            !.price =
                IF page.ldOffer.present
                THEN IF AmountTruthy(page.ldOffer.price)
                     THEN Price(page.ldOffer.price, GBP, page.ldOffer.text)
                     ELSE Price(AmountNull, GBP, NoText)
                ELSE @,
            !.propertyType =
                IF ~Truthy(@) /\ Truthy(page.ldType)
                THEN cleanText(page.ldType)
                ELSE @]

\* for (const embedded of embeddedData) { ... }
RECURSIVE mergeEmbedded(_, _)
mergeEmbedded(payloads, propertyData) ==
    IF payloads = <<>> THEN propertyData
    ELSE mergeEmbedded(
             Tail(payloads),
             IF IsUsed(Head(payloads))
             THEN mergePropertyData(propertyData,
                                    extractPropertyFromPayload(Head(payloads)))
             ELSE propertyData)

embeddedPass(page, propertyData) == mergeEmbedded(EmbeddedOf(page), propertyData)

\* if (feature && feature.length > 2) keyFeatures.push(feature)
IsFeature(feature) == Truthy(feature) /\ Length(feature) > 2

\* The gallery loop: if (src && !images.includes(src))
\*                      images.push(ensureAbsoluteUrl(src))
RECURSIVE galleryImages(_, _)
galleryImages(srcs, images) ==
    IF srcs = <<>> THEN images
    ELSE LET src == Head(srcs)
         IN  IF Truthy(src) /\ ~\E i \in DOMAIN images : images[i] = src
             THEN galleryImages(Tail(srcs),
                                Append(images, ensureAbsoluteUrl(src)))
             ELSE galleryImages(Tail(srcs), images)

\* The rest of the try block: title, key features, gallery images,
\* floorplans, propertyType from the detail table, then by inference, and
\* the returned object.
htmlPass(page, propertyData) ==
    LET keyFeatures ==
            SelectSeq([i \in DOMAIN page.featureItems |->
                          cleanText(page.featureItems[i])], IsFeature)
        images == IF propertyData.images = Absent
                  THEN galleryImages(page.gallery, <<>>)
                  ELSE propertyData.images
        floorplans ==
            mapEnsureAbsoluteUrl(SelectSeq(page.floorplanImgs, Truthy))
        title == OrElse(propertyData.title, cleanText(page.h1))
        fromDetails ==
            IF ~Truthy(propertyData.propertyType) /\ Truthy(page.detailsType)
            THEN cleanText(page.detailsType)
            ELSE propertyData.propertyType
        propertyType ==
            IF ~Truthy(fromDetails)
            THEN inferPropertyType(
                     OrElse(title, <<>>) \o <<" ">>
                     \o OrElse(propertyData.description, <<>>) \o <<" ">>
                     \o OrElse(propertyData.address, <<>>))
            ELSE fromDetails
    IN  [propertyData EXCEPT
            !.title = OrElse(title, propertyData.title),
            !.propertyType = propertyType,
            !.keyFeatures = IF keyFeatures # <<>> THEN keyFeatures ELSE @,
            !.floorplans = IF floorplans # <<>> THEN floorplans ELSE @,
            !.images = IfAny(images)]

extractPropertyDetails(page, basicInfo) ==
    IF page.ld = "null"
    THEN [basicInfo EXCEPT !.extractionMethod = "failed"]
    ELSE [htmlPass(page, embeddedPass(page, jsonLdPass(page, basicInfo)))
            EXCEPT !.extractionMethod = extractionMethodOf(page)]

\* The structured sources of a detail page before parsing.  The content of
\* a linked-data script is "malformed" (JSON.parse throws), "null" (the
\* literal null), "other" (an entry of another type) or "product" (the
\* listing entry of the page); an embedded source (the script
\* __NEXT_DATA__, then the markers in order) is malformed or holds a blob,
\* given by the payload findPropertyPayload finds in it.
Parses(content) == content # "malformed"

\* extractJsonLd when the first script that fails to parse ends the loop.
extractJsonLdUntilError(scripts) ==
    IF \E i \in DOMAIN scripts : ~Parses(scripts[i])
    THEN SubSeq(scripts, 1,
                (CHOOSE i \in DOMAIN scripts :
                    /\ ~Parses(scripts[i])
                    /\ \A j \in 1 .. i - 1 : Parses(scripts[j])) - 1)
    ELSE scripts

\* extractJsonLd: each script is parsed in its own try block.
extractJsonLd(scripts) == SelectSeq(scripts, Parses)

\* jsonLdData.find(d => d['@type'] === 'Product' || ...), which throws on
\* an entry that is null.
RECURSIVE findJsonLd(_)
findJsonLd(jsonLdData) ==
    IF jsonLdData = <<>> THEN "none"
    ELSE IF Head(jsonLdData) = "null" THEN "null"
    ELSE IF Head(jsonLdData) = "product" THEN "product"
    ELSE findJsonLd(Tail(jsonLdData))

Source(parses, payload) == [parses |-> parses, payload |-> payload]

SourceParses(source) == source.parses

\* extractEmbeddedJson: the blobs of the sources that parse, in order.
extractEmbeddedJson(sources) ==
    LET parsed == SelectSeq(sources, SourceParses)
    IN  [i \in DOMAIN parsed |-> parsed[i].payload]

\* The page extractPropertyDetails works on once the sources are parsed.
ParsedPage(page, scripts, sources) ==
    LET embeddedData == extractEmbeddedJson(sources)
    IN  [page EXCEPT
            !.ld = findJsonLd(extractJsonLd(scripts)),
            !.emb = IF embeddedData = <<>> THEN NoPayload
                    ELSE Head(embeddedData),
            !.moreEmb = IF embeddedData = <<>> THEN <<>>
                        ELSE Tail(embeddedData)]

\* property = mergePropertyData(property, extracted) of the API fallback
apiPass(page, property) ==
    IF page.api.found
    THEN mergePropertyData(property, extractPropertyFromPayload(page.api))
    ELSE property

\* The DETAIL branch up to the append: extraction, API fallback merge,
\* normalization.
FinalizeDetail(page, basicInfo) ==
    normalizeProperty(apiPass(page, extractPropertyDetails(page, basicInfo)))

\* The basic-mode record of a card.
FinalizeBasic(property) ==
    normalizeProperty([property EXCEPT !.extractionMethod = "basic-card"])

\* The pages are fixed, so what the pure functions above return for each card
\* and each listing is computed once: the record of every card, and the
\* finalized record of every card record in detail mode and in basic mode.
CardRecords == [card \in Cards |-> extractPropertyCard(card)]

DetailRecords ==
    [basicInfo \in { CardRecords[u] : u \in Urls } |->
        FinalizeDetail(DetailPageOf(basicInfo.url), basicInfo)]

BasicRecords ==
    [property \in { CardRecords[u] : u \in Urls } |-> FinalizeBasic(property)]

\* ------------------------------------------------------------------- state
VARIABLES
    collectDetails, maxResults, maxPages,   \* effective input
    phase,              \* "running" | "finalFlush" | "setValue" | "success"
                        \* | "catch" | "error" | "threw"
    queue,              \* pending requests of the crawler
    running,            \* request handlers in flight, each at an await
    propertyUrls,       \* dedup set
    propertiesQueued, propertiesStored, pagesProcessed,
    propertyDataBatch,  \* output buffer
    dataset,            \* the sink: the bag of items Dataset.pushData delivered
    OUTPUT,             \* run summary
    \* history of the run, read by the properties only
    enqueued,           \* url -> number of detail requests added for it
    appended,           \* url -> number of records appended to the buffer
    nextAdded,          \* page -> number of next-page requests it added
    listEnq,            \* next-page requests added: page, parent, parent's cards
    handledPages,       \* page numbers of the search pages handled
    skipped,            \* urls the card loop skipped as already seen
    \* a function of the extraction and normalization pipeline applied on its
    \* own to one input; idle during a crawl
    call

inputVars == <<collectDetails, maxResults, maxPages>>
histVars == <<enqueued, appended, nextAdded, listEnq, handledPages, skipped>>
vars == <<collectDetails, maxResults, maxPages, phase, queue, running,
          propertyUrls, propertiesQueued, propertiesStored, pagesProcessed,
          propertyDataBatch, dataset, OUTPUT, enqueued, appended, nextAdded,
          listEnq, handledPages, skipped, call>>

Pages == 1 .. (MaxPagesBound + 1)

Request(label, pageNumber, basicInfo, retryCount) ==
    [label |-> label, pageNumber |-> pageNumber, basicInfo |-> basicInfo,
     retryCount |-> retryCount]

ListRequest(pageNumber) == Request("LIST", pageNumber, NoProperty, 0)
DetailRequest(property) == Request("DETAIL", 0, property, 0)

Handler(req, pc, todo, copy, nCards) ==
    [req |-> req, pc |-> pc, todo |-> todo, copy |-> copy, nCards |-> nCards]

NoOutput ==
    [status |-> "none", propertiesStored |-> 0, uniqueProperties |-> 0,
     pagesProcessed |-> 0, error |-> NULL]

\* No function is being applied on its own.
NoCall == [fn |-> "none", pc |-> "idle", arg |-> <<>>, ret |-> <<>>]

\* The search pages a site of `listings` listings can serve: runs of
\* consecutive cards.
CardListsOf(listings) ==
    { [i \in 1 .. n |-> a + i - 1] :
        <<a, n>> \in { c \in Cards \X (0 .. MaxCards) :
                         c[1] + c[2] - 1 <= listings } }

CardLists == CardListsOf(SiteUrls)

\* The state after construction, the start request added, for the
\* effective input given.
Start(details, results, pages) ==
    /\ collectDetails = details
    /\ maxResults = results
    /\ maxPages = pages
    /\ phase = "running"
    /\ queue = {ListRequest(1)}
    /\ running = {}
    /\ propertyUrls = {}
    /\ propertiesQueued = 0
    /\ propertiesStored = 0
    /\ pagesProcessed = 0
    /\ propertyDataBatch = <<>>
    /\ dataset = EmptyBag
    /\ OUTPUT = NoOutput
    /\ enqueued = [u \in Urls |-> 0]
    /\ appended = [u \in Urls |-> 0]
    /\ nextAdded = [p \in Pages |-> 0]
    /\ listEnq = {}
    /\ handledPages = {}
    /\ skipped = {}
    /\ call = NoCall

Init ==
    \E details \in BOOLEAN, results \in 1 .. MaxResultsBound,
       pages \in 1 .. MaxPagesBound : Start(details, results, pages)

\* ------------------------------------------------------- handler helpers
\* A card loop that never finds a url in the dedup set.
SeenHasNever(seen, url) == FALSE

\* propertyUrls.has(property.url)
SeenHas(seen, url) == url \in seen

\* The card loop of the LIST branch: stop at `remaining` properties, skip a
\* card without a property or with a url already in the dedup set, else
\* insert the url and keep the property.
RECURSIVE CardLoop(_, _, _, _, _)
CardLoop(cards, seen, properties, remaining, skip) ==
    IF cards = <<>> \/ Len(properties) >= remaining
    THEN [properties |-> properties, seen |-> seen, skip |-> skip]
    ELSE LET property == CardRecords[Head(cards)]
         IN  IF property.url = 0
             THEN CardLoop(Tail(cards), seen, properties, remaining, skip)
             ELSE IF SeenHas(seen, property.url)
             THEN CardLoop(Tail(cards), seen, properties, remaining,
                           skip \cup {property.url})
             ELSE CardLoop(Tail(cards), seen \cup {property.url},
                           Append(properties, property), remaining, skip)

\* The basic-mode loop: append normalized card records until maxResults.
RECURSIVE BasicLoop(_, _, _, _)
BasicLoop(properties, batch, stored, limit) ==
    IF properties = <<>> \/ stored >= limit
    THEN [batch |-> batch, stored |-> stored]
    ELSE BasicLoop(Tail(properties),
                   Append(batch, BasicRecords[Head(properties)]),
                   stored + 1, limit)

\* remaining = collectDetails ? maxResults - queued : maxResults - stored
Remaining(queuedCount, storedCount) ==
    IF collectDetails THEN maxResults - queuedCount ELSE maxResults - storedCount

\* A pagination guard that lets one page too many through.
MorePagesOffByOne(queuedCount, storedCount, pages) ==
    /\ (IF collectDetails THEN queuedCount ELSE storedCount) < maxResults
    /\ pages <= maxPages

\* The pagination guard.
MorePages(queuedCount, storedCount, pages) ==
    /\ (IF collectDetails THEN queuedCount ELSE storedCount) < maxResults
    /\ pages < maxPages

\* nextPageNumber = (userData.pageNumber || pagesProcessed || 1) + 1
NextPageNumber(req, pages) ==
    (IF req.pageNumber # 0 THEN req.pageNumber
     ELSE IF pages # 0 THEN pages ELSE 1) + 1

\* Where the LIST handler goes after its loops: to the addRequests of the
\* next page, or to the sleep it ends with.  findNextPageUrl always returns
\* a url.
PaginationPc(queuedCount, storedCount, pages) ==
    IF MorePages(queuedCount, storedCount, pages) THEN "addNext" ELSE "sleep"

\* The handlers in flight once handler h has moved on to `next`.
Moved(h, next) == (running \ {h}) \cup {next}

\* The handlers in flight once a handler has started and reached `next`.
Started(next) == running \cup {next}

\* The handlers in flight once handler h has thrown: the crawler calls
\* errorHandler, which sleeps, when it is going to retry the request, and
\* failedRequestHandler, which does not suspend, when it gives it up.
Thrown(h) ==
    IF h.req.retryCount < MAX_RETRIES
    THEN (running \ {h})
         \cup {[h EXCEPT !.pc = "errorHandler", !.todo = <<>>, !.copy = <<>>,
                         !.nCards = 0]}
    ELSE running \ {h}

\* main has reached `await Actor.exit()`, with the summary written
\* ("success", "error") or not ("threw").
Ended == phase \in {"success", "error", "threw"}

\* Handlers in flight go on while the crawler runs and, when crawler.run()
\* has rejected, while the catch block awaits Actor.setValue and while main
\* awaits Actor.exit(): nothing in the code stops them, and the process may
\* end before or after any of their steps.
Live == phase \in {"running", "catch", "error", "threw"}

RECURSIVE SeqToBag(_)
SeqToBag(records) ==
    IF records = <<>> THEN EmptyBag
    ELSE SetToBag({Head(records)}) (+) SeqToBag(Tail(records))

\* The threshold of the flush.
FlushDue(batch) == Len(batch) >= DATASET_BATCH_SIZE

\* The crawler takes back a request whose errorHandler has ended: the retry
\* is counted.
Reclaim(q, req) == q \cup {[req EXCEPT !.retryCount = @ + 1]}

CanStart(req) ==
    /\ phase = "running"
    /\ req \in queue
    /\ Cardinality(running) < maxConcurrency

Bump(f, x) == [f EXCEPT ![x] = @ + 1]

RECURSIVE BumpAll(_, _)
BumpAll(f, records) ==
    IF records = <<>> THEN f
    ELSE BumpAll(Bump(f, Head(records).url), Tail(records))

Summary ==
    [status |-> "success",
     propertiesStored |-> propertiesStored,
     uniqueProperties |-> Cardinality(propertyUrls),
     pagesProcessed |-> IF pagesProcessed # 0 THEN pagesProcessed ELSE 1,
     error |-> NULL]

ErrorOutput == [NoOutput EXCEPT !.status = "error", !.error = "message"]

\* ----------------------------------------------------------------- actions
\* A blocked response whose handler counts the page before it sleeps.
HandleBlockedCounting(req) ==
    /\ CanStart(req)
    /\ queue' = queue \ {req}
    /\ running' = Started(Handler(req, "blocked", <<>>, <<>>, 0))
    /\ pagesProcessed' = Max(pagesProcessed, 1)
    /\ UNCHANGED <<inputVars, call, phase, propertyUrls, propertiesQueued,
                   propertiesStored, propertyDataBatch, dataset,
                   OUTPUT, histVars>>

\* A blocked response: the handler retires the session and sleeps for the
\* backoff before it touches any crawl state.
HandleBlocked(req) ==
    /\ CanStart(req)
    /\ queue' = queue \ {req}
    /\ running' = Started(Handler(req, "blocked", <<>>, <<>>, 0))
    /\ UNCHANGED <<inputVars, call, phase, propertyUrls, propertiesQueued,
                   propertiesStored, pagesProcessed, propertyDataBatch, dataset,
                   OUTPUT, histVars>>

\* The backoff of a blocked response is over: throw new Error('Blocked
\* response').
BlockedThrows(h) ==
    /\ Live
    /\ h \in running
    /\ h.pc = "blocked"
    /\ running' = Thrown(h)
    /\ UNCHANGED <<inputVars, call, phase, queue, propertyUrls, propertiesQueued,
                   propertiesStored, pagesProcessed, propertyDataBatch, dataset,
                   OUTPUT, histVars>>

\* DETAIL branch up to its first await: the page is extracted and, as it
\* lacks some field, the property API is asked.
DetailStart(req) ==
    /\ CanStart(req)
    /\ req.label = "DETAIL"
    /\ queue' = queue \ {req}
    /\ running' = Started(Handler(req, "api", <<>>, <<>>, 0))
    /\ UNCHANGED <<inputVars, call, phase, propertyUrls, propertiesQueued,
                   propertiesStored, pagesProcessed, propertyDataBatch, dataset,
                   OUTPUT, histVars>>

\* The DETAIL branch appends the normalized record, counts it, and starts
\* the flush when the buffer has reached the threshold, else the closing
\* sleep.
DetailAppends(h, normalized) ==
    LET batch == Append(propertyDataBatch, normalized)
    IN  /\ propertyDataBatch' = batch
        /\ propertiesStored' = propertiesStored + 1
        /\ appended' = Bump(appended, normalized.url)
        /\ running' = Moved(h,
             [h EXCEPT !.pc = IF FlushDue(batch) THEN "flush" ELSE "sleep",
                       !.copy = IF FlushDue(batch) THEN batch ELSE <<>>])

\* fetchPropertyApi has answered (it never rejects): merge the API fallback,
\* normalize, append.
DetailApiResolves(h) ==
    /\ Live
    /\ h \in running
    /\ h.pc = "api"
    /\ DetailAppends(h, DetailRecords[h.req.basicInfo])
    /\ UNCHANGED <<inputVars, call, phase, queue, propertyUrls, propertiesQueued,
                   pagesProcessed, dataset, OUTPUT, enqueued, nextAdded, listEnq,
                   handledPages, skipped>>

\* The LIST branch after its card loop, at its first await: in detail mode
\* the first addRequests, or the pagination step when nothing is to be
\* queued; in basic mode the cards are pushed first, and the await is the
\* flush or the pagination step.
ListQueues(req, cards, loop) ==
    /\ running' = Started(
         Handler(req,
             IF loop.properties # <<>> /\ propertiesQueued < maxResults
             THEN "addDetail"
             ELSE PaginationPc(propertiesQueued, propertiesStored,
                               pagesProcessed'),
             IF loop.properties # <<>> /\ propertiesQueued < maxResults
             THEN loop.properties ELSE <<>>,
             <<>>, Len(cards)))
    /\ UNCHANGED <<propertiesStored, propertyDataBatch, appended>>

ListPushes(req, cards, loop, pushed) ==
    /\ propertyDataBatch' = pushed.batch
    /\ propertiesStored' = pushed.stored
    /\ appended' = BumpAll(appended,
                           SubSeq(loop.properties, 1, pushed.stored - propertiesStored))
    /\ running' = Started(
         Handler(req,
             IF FlushDue(pushed.batch) THEN "flush"
             ELSE PaginationPc(propertiesQueued, pushed.stored,
                               pagesProcessed'),
             <<>>,
             IF FlushDue(pushed.batch) THEN pushed.batch ELSE <<>>,
             Len(cards)))

ListCards(req, cards, remaining, loop) ==
    IF remaining <= 0
    THEN UNCHANGED <<running, propertyUrls, propertiesStored,
                     propertyDataBatch, appended, skipped>>
    ELSE
      /\ propertyUrls' = loop.seen
      /\ skipped' = skipped \cup loop.skip
      /\ IF collectDetails
         THEN ListQueues(req, cards, loop)
         ELSE ListPushes(req, cards, loop,
                         BasicLoop(loop.properties, propertyDataBatch,
                                   propertiesStored, maxResults))

\* LIST branch from its start to its first await.
ListStart(req, cards) ==
    /\ CanStart(req)
    /\ req.label = "LIST"
    /\ queue' = queue \ {req}
    /\ pagesProcessed' = Max(pagesProcessed, IF req.pageNumber # 0 THEN req.pageNumber ELSE 1)
    /\ handledPages' = handledPages \cup {req.pageNumber}
    /\ ListCards(req, cards, Remaining(propertiesQueued, propertiesStored),
                 CardLoop(cards, propertyUrls, <<>>,
                          Remaining(propertiesQueued, propertiesStored), {}))
    /\ UNCHANGED <<inputVars, call, phase, propertiesQueued, dataset, OUTPUT, enqueued,
                   nextAdded, listEnq>>

\* crawler.addRequests of one detail request resolves: the request is in
\* the queue, propertiesQueued is counted, and the loop goes on to the next
\* property or leaves for the pagination step.
ListAddDetailResolves(h) ==
    /\ Live
    /\ h \in running
    /\ h.req.label = "LIST"
    /\ h.pc = "addDetail"
    /\ LET property == Head(h.todo)
           rest == Tail(h.todo)
           queuedCount == propertiesQueued + 1
           more == rest # <<>> /\ queuedCount < maxResults
       IN  /\ queue' = queue \cup {DetailRequest(property)}
           /\ enqueued' = Bump(enqueued, property.url)
           /\ propertiesQueued' = queuedCount
           /\ running' = Moved(h,
                [h EXCEPT !.todo = IF more THEN rest ELSE <<>>,
                          !.pc = IF more
                                 THEN "addDetail"
                                 ELSE PaginationPc(queuedCount, propertiesStored,
                                                   pagesProcessed)])
    /\ UNCHANGED <<inputVars, call, phase, propertyUrls, propertiesStored,
                   pagesProcessed, propertyDataBatch, dataset, OUTPUT, appended,
                   nextAdded, listEnq, handledPages, skipped>>

\* Dataset.pushData([...propertyDataBatch]) of a threshold flush resolves:
\* the copy taken at the call is in the sink, and the handler empties the
\* buffer as it is now.
FlushResolves(h) ==
    /\ Live
    /\ h \in running
    /\ h.pc = "flush"
    /\ dataset' = dataset (+) SeqToBag(h.copy)
    /\ propertyDataBatch' = <<>>
    /\ running' = Moved(h,
         [h EXCEPT !.copy = <<>>,
                   !.pc = IF h.req.label = "LIST"
                          THEN PaginationPc(propertiesQueued, propertiesStored,
                                            pagesProcessed)
                          ELSE "sleep"])
    /\ UNCHANGED <<inputVars, call, phase, queue, propertyUrls, propertiesQueued,
                   propertiesStored, pagesProcessed, OUTPUT, histVars>>

\* crawler.addRequests of the next search page resolves; the handler goes
\* on to its closing sleep.
ListAddNextResolves(h) ==
    /\ Live
    /\ h \in running
    /\ h.req.label = "LIST"
    /\ h.pc = "addNext"
    /\ LET nextPageNumber == NextPageNumber(h.req, pagesProcessed)
       IN  /\ queue' = queue \cup {ListRequest(nextPageNumber)}
           /\ listEnq' = listEnq \cup
                {[pageNumber |-> nextPageNumber, from |-> h.req.pageNumber,
                  fromCards |-> h.nCards]}
           /\ nextAdded' = Bump(nextAdded, h.req.pageNumber)
    /\ running' = Moved(h, [h EXCEPT !.pc = "sleep", !.nCards = 0])
    /\ UNCHANGED <<inputVars, call, phase, propertyUrls, propertiesQueued,
                   propertiesStored, pagesProcessed, propertyDataBatch, dataset,
                   OUTPUT, enqueued, appended, handledPages, skipped>>

\* await sleep(getRandomDelay()) at the end of a handler is over: the
\* handler returns.
HandlerReturns(h) ==
    /\ Live
    /\ h \in running
    /\ h.pc = "sleep"
    /\ running' = running \ {h}
    /\ UNCHANGED <<inputVars, call, phase, queue, propertyUrls, propertiesQueued,
                   propertiesStored, pagesProcessed, propertyDataBatch, dataset,
                   OUTPUT, histVars>>

\* An awaited call of the handler (addRequests, pushData) rejects: the
\* handler throws with whatever it has done so far.
AwaitRejects(h) ==
    /\ Live
    /\ h \in running
    /\ h.pc \in {"addDetail", "flush", "addNext"}
    /\ running' = Thrown(h)
    /\ UNCHANGED <<inputVars, call, phase, queue, propertyUrls, propertiesQueued,
                   propertiesStored, pagesProcessed, propertyDataBatch, dataset,
                   OUTPUT, histVars>>

\* The backoff sleep of errorHandler is over: the crawler puts the request
\* back for its retry.
ErrorHandlerResolves(h) ==
    /\ Live
    /\ h \in running
    /\ h.pc = "errorHandler"
    /\ running' = running \ {h}
    /\ queue' = Reclaim(queue, h.req)
    /\ UNCHANGED <<inputVars, call, phase, propertyUrls, propertiesQueued,
                   propertiesStored, pagesProcessed, propertyDataBatch, dataset,
                   OUTPUT, histVars>>

\* crawler.run() resolves: no request is pending and no handler in flight.
\* The rest of the buffer is pushed, or, with an empty buffer, the summary
\* is handed to Actor.setValue.
RunResolves ==
    /\ phase = "running"
    /\ queue = {}
    /\ running = {}
    /\ phase' = IF Len(propertyDataBatch) > 0 THEN "finalFlush" ELSE "setValue"
    /\ UNCHANGED <<inputVars, call, queue, running, propertyUrls, propertiesQueued,
                   propertiesStored, pagesProcessed, propertyDataBatch, dataset,
                   OUTPUT, histVars>>

\* The final pushData resolves; the summary is handed to Actor.setValue.
FinalFlushResolves ==
    /\ phase = "finalFlush"
    /\ dataset' = dataset (+) SeqToBag(propertyDataBatch)
    /\ phase' = "setValue"
    /\ UNCHANGED <<inputVars, call, queue, running, propertyUrls, propertiesQueued,
                   propertiesStored, pagesProcessed, propertyDataBatch, OUTPUT,
                   histVars>>

\* The final pushData rejects: the catch block hands the error summary to
\* Actor.setValue.
FinalFlushRejects ==
    /\ phase = "finalFlush"
    /\ phase' = "catch"
    /\ UNCHANGED <<inputVars, call, queue, running, propertyUrls, propertiesQueued,
                   propertiesStored, pagesProcessed, propertyDataBatch, dataset,
                   OUTPUT, histVars>>

\* Actor.setValue('OUTPUT', {status: 'success', ...}) resolves.
SetValueResolves ==
    /\ phase = "setValue"
    /\ phase' = "success"
    /\ OUTPUT' = Summary
    /\ UNCHANGED <<inputVars, call, queue, running, propertyUrls, propertiesQueued,
                   propertiesStored, pagesProcessed, propertyDataBatch, dataset,
                   histVars>>

\* Actor.setValue of the success summary rejects: on to the catch block.
SetValueRejects ==
    /\ phase = "setValue"
    /\ phase' = "catch"
    /\ UNCHANGED <<inputVars, call, queue, running, propertyUrls, propertiesQueued,
                   propertiesStored, pagesProcessed, propertyDataBatch, dataset,
                   OUTPUT, histVars>>

\* crawler.run() rejects (the crawler itself fails): the catch block hands
\* the error summary to Actor.setValue; handlers in flight go on meanwhile.
RunRejects ==
    /\ phase = "running"
    /\ phase' = "catch"
    /\ UNCHANGED <<inputVars, call, queue, running, propertyUrls, propertiesQueued,
                   propertiesStored, pagesProcessed, propertyDataBatch, dataset,
                   OUTPUT, histVars>>

\* Actor.setValue of the catch block resolves: the error summary is
\* written, the error rethrown and Actor.exit() awaited.
CatchSetValueResolves ==
    /\ phase = "catch"
    /\ phase' = "error"
    /\ OUTPUT' = ErrorOutput
    /\ UNCHANGED <<inputVars, call, queue, running, propertyUrls, propertiesQueued,
                   propertiesStored, pagesProcessed, propertyDataBatch, dataset,
                   histVars>>

\* Actor.setValue of the catch block rejects: main throws, no summary is
\* written, and Actor.exit() is awaited.
CatchSetValueRejects ==
    /\ phase = "catch"
    /\ phase' = "threw"
    /\ UNCHANGED <<inputVars, call, queue, running, propertyUrls, propertiesQueued,
                   propertiesStored, pagesProcessed, propertyDataBatch, dataset,
                   OUTPUT, histVars>>

\* Every step main and the handlers are sure to take: all but the failure
\* of the crawler itself, and none once main awaits Actor.exit(), as the
\* process may end at any moment from then on.
Progress ==
    /\ ~Ended
    /\ \/ \E req \in queue : HandleBlocked(req)
       \/ \E h \in running : BlockedThrows(h)
       \/ \E req \in queue : DetailStart(req)
       \/ \E h \in running : DetailApiResolves(h)
       \/ \E req \in queue, cards \in CardLists : ListStart(req, cards)
       \/ \E h \in running : ListAddDetailResolves(h)
       \/ \E h \in running : FlushResolves(h)
       \/ \E h \in running : ListAddNextResolves(h)
       \/ \E h \in running : HandlerReturns(h)
       \/ \E h \in running : AwaitRejects(h)
       \/ \E h \in running : ErrorHandlerResolves(h)
       \/ RunResolves
       \/ FinalFlushResolves
       \/ FinalFlushRejects
       \/ SetValueResolves
       \/ SetValueRejects
       \/ CatchSetValueResolves
       \/ CatchSetValueRejects

Next ==
    \/ \E req \in queue : HandleBlocked(req)
    \/ \E h \in running : BlockedThrows(h)
    \/ \E req \in queue : DetailStart(req)
    \/ \E h \in running : DetailApiResolves(h)
    \/ \E req \in queue, cards \in CardLists : ListStart(req, cards)
    \/ \E h \in running : ListAddDetailResolves(h)
    \/ \E h \in running : FlushResolves(h)
    \/ \E h \in running : ListAddNextResolves(h)
    \/ \E h \in running : HandlerReturns(h)
    \/ \E h \in running : AwaitRejects(h)
    \/ \E h \in running : ErrorHandlerResolves(h)
    \/ RunResolves
    \/ FinalFlushResolves
    \/ FinalFlushRejects
    \/ SetValueResolves
    \/ SetValueRejects
    \/ RunRejects
    \/ CatchSetValueResolves
    \/ CatchSetValueRejects

Spec == Init /\ [][Next]_vars

\* The runs in detail mode, with room for every listing of the site, in
\* which no response is blocked and no awaited call rejects.
CalmInit == Start(TRUE, NumUrls, MaxPagesBound)

CalmNext ==
    \/ \E req \in queue : DetailStart(req)
    \/ \E h \in running : DetailApiResolves(h)
    \/ \E req \in queue, cards \in CardListsOf(NumUrls) : ListStart(req, cards)
    \/ \E h \in running : ListAddDetailResolves(h)
    \/ \E h \in running : FlushResolves(h)
    \/ \E h \in running : ListAddNextResolves(h)
    \/ \E h \in running : HandlerReturns(h)
    \/ RunResolves
    \/ FinalFlushResolves
    \/ SetValueResolves

CalmSpec == CalmInit /\ [][CalmNext]_vars

\* The event loop runs every continuation that is ready and the pool starts
\* every pending request while a slot is free: a step other than the
\* crawler's own failure is taken whenever one stays possible.
FairSpec == Init /\ [][Next]_vars /\ WF_vars(Progress)

\* ------------------------------------------------------------ properties
RECURSIVE SumCopies(_, _)
SumCopies(records, bag) ==
    IF records = {} THEN 0
    ELSE LET r == CHOOSE x \in records : TRUE
         IN  CopiesIn(r, bag) + SumCopies(records \ {r}, bag)

\* Number of items the sink holds for listing u, and in all.
Delivered(u) == SumCopies({r \in BagToSet(dataset) : r.url = u}, dataset)
DeliveredTotal == SumCopies(BagToSet(dataset), dataset)

Finished == Ended

\* C1: at the end of a successful run every listing whose finalized record
\* was appended to propertyDataBatch has a record in the sink.
C1_AppendedIsDelivered ==
    phase = "success" =>
        \A u \in Urls : appended[u] > 0 => Delivered(u) > 0

\* C2: no buffered record is pushed to the sink twice: the sink never holds
\* more items for a listing than records were appended for it.
C2_DeliveredAtMostOnce ==
    \A u \in Urls : Delivered(u) <= appended[u]

\* C3: no listing url is enqueued for a detail fetch more than once, and the
\* unique count of the summary is the size of the dedup set.
C3_EnqueuedAtMostOnce ==
    /\ \A u \in Urls : enqueued[u] <= 1
    /\ phase = "success" => OUTPUT.uniqueProperties = Cardinality(propertyUrls)

\* C3 witness: a run ended after a later card pass saw an already enqueued
\* url again and skipped it.
C3_Witness ==
    /\ phase = "success"
    /\ \E u \in skipped : enqueued[u] = 1

\* C4: propertiesQueued and propertiesStored never exceed maxResults.
C4_RecordCeiling ==
    /\ collectDetails => propertiesQueued <= maxResults
    /\ propertiesStored <= maxResults

\* C5: a next-page request carries its parent's pageNumber + 1, a handled
\* page adds at most one, and no search page is numbered above maxPages.
C5_PageCount ==
    /\ \A e \in listEnq : e.pageNumber = e.from + 1 /\ e.pageNumber <= maxPages
    /\ \A p \in Pages : nextAdded[p] <= 1
    /\ \A r \in queue : r.label = "LIST" => r.pageNumber <= maxPages
    /\ \A h \in running : h.req.label = "LIST" => h.req.pageNumber <= maxPages
    /\ handledPages \subseteq 1 .. maxPages

\* C5 witness: the last allowed page was enqueued by its predecessor and
\* handled, and the run ended.
C5_Witness ==
    /\ phase = "success"
    /\ maxPages = MaxPagesBound
    /\ maxPages \in handledPages
    /\ nextAdded[maxPages - 1] = 1

\* C6: no next-page request is added by the handler of a page on which no
\* listing card was found.
C6_StopOnEmptyPage ==
    \A e \in listEnq : e.fromCards > 0

LacksBoth(r) == r.address = NoText /\ r.title = NoText

\* C7: in detail mode a delivered record without address and title is
\* delivered once and is tagged "failed".
C7_FailureVisible ==
    collectDetails =>
        \A r \in BagToSet(dataset) :
            LacksBoth(r) => /\ r.extractionMethod = "failed"
                            /\ CopiesIn(r, dataset) = 1

\* C8: when the run ends with status "error", no record is left in
\* propertyDataBatch that the sink does not hold.
C8_FlushedOnError ==
    phase = "error" =>
        \A i \in 1 .. Len(propertyDataBatch) : BagIn(propertyDataBatch[i], dataset)

RECURSIVE SumOver(_, _)
SumOver(f, S) ==
    IF S = {} THEN 0
    ELSE LET x == CHOOSE y \in S : TRUE
         IN  f[x] + SumOver(f, S \ {x})

\* C9: at most maxResults detail requests and maxPages search requests are
\* ever added, and the run ends with a summary written that carries its
\* status, with the message when the status is "error".
C9_Terminates ==
    /\ [](/\ SumOver(enqueued, Urls) <= maxResults
          /\ 1 + SumOver(nextAdded, Pages) <= maxPages)
    /\ <>(/\ Finished
          /\ OUTPUT.status = phase
          /\ (phase = "error" => OUTPUT.error # NULL))

RECURSIVE SetMax(_)
SetMax(S) ==
    IF S = {} THEN 0
    ELSE LET x == CHOOSE y \in S : TRUE
         IN  Max(x, SetMax(S \ {x}))

\* C10: the success summary counts the records delivered and reports the
\* highest page handled.
C10_SummaryConsistent ==
    phase = "success" =>
        /\ OUTPUT.propertiesStored = DeliveredTotal
        /\ handledPages # {} => OUTPUT.pagesProcessed = SetMax(handledPages)

\* ------------------------------------------------------- nested payloads
\* An object graph: objects and arrays are the nodes 1 .. MaxNodes, 0 is a
\* value that is not an object (null, a string, a number).  children[n] are
\* the items of an array or the values of the keys of an object, in order;
\* matching are the nodes the predicate holds for.
MaxNodes == 8

Nodes == 1 .. MaxNodes

Graph(root, children, matching) ==
    [root |-> root, children |-> children, matching |-> matching]

IsObject(value) == value # 0

\* A queue entry { value, depth }.
Entry(value, depth) == [value |-> value, depth |-> depth]

\* The entries findNestedObject pushes for a dequeued node when the depth
\* limit is not applied.
ExpandUnbounded(graph, value, depth, maxDepth) ==
    [i \in DOMAIN graph.children[value] |->
        Entry(graph.children[value][i], depth + 1)]

\* The entries findNestedObject pushes for a dequeued node:
\* if (depth >= maxDepth) continue; else one entry per item or key.
Expand(graph, value, depth, maxDepth) ==
    IF depth >= maxDepth THEN <<>>
    ELSE [i \in DOMAIN graph.children[value] |->
             Entry(graph.children[value][i], depth + 1)]

NoNode == 0

\* One pass of while (queue.length) { ... } on the locals queue (entries) and seen:
\* whether it returned, what it returned, and the locals after it.
whilePass(graph, entries, seen) ==
    LET value == Head(entries).value
        depth == Head(entries).depth
        rest == Tail(entries)
    IN  IF ~IsObject(value) \/ value \in seen
        THEN [returned |-> FALSE, ret |-> NoNode, queue |-> rest, seen |-> seen]
        ELSE IF value \in graph.matching
        THEN [returned |-> TRUE, ret |-> value, queue |-> rest,
              seen |-> seen \cup {value}]
        ELSE [returned |-> FALSE, ret |-> NoNode,
              queue |-> rest \o Expand(graph, value, depth, 6),
              seen |-> seen \cup {value}]

RECURSIVE whileLoop(_, _, _)
whileLoop(graph, entries, seen) ==
    IF entries = <<>> THEN NoNode
    ELSE LET pass == whilePass(graph, entries, seen)
         IN  IF pass.returned THEN pass.ret
             ELSE whileLoop(graph, pass.queue, pass.seen)

\* findNestedObject(root, predicate) with maxDepth = 6.
findNestedObject(graph) ==
    IF ~IsObject(graph.root) THEN NoNode
    ELSE whileLoop(graph, <<Entry(graph.root, 0)>>, {})

\* isLikelyPropertyPayload on the keys of a plain object.
isLikelyPropertyPayload(keys) ==
    LET hasAddress == keys \cap {"displayAddress", "address", "propertyAddress",
                                 "addressSummary"} # {}
        hasBeds == keys \cap {"bedrooms", "bedroomCount", "numBedrooms"} # {}
        hasType == keys \cap {"propertyType", "propertySubType",
                              "propertyTypeFullDescription"} # {}
        hasPrice == keys \cap {"price", "displayPrice", "priceAmount"} # {}
    IN  hasAddress /\ (hasBeds \/ hasType \/ hasPrice)

\* An embedded blob: the graph of its plain objects, the keys of each, and
\* direct, the value of data.propertyData || data.property || data.listing
\* || data.details || data.result when it is a plain object (else NoNode).
Blob(root, children, keys, direct) ==
    [root |-> root, children |-> children, keys |-> keys, direct |-> direct]

findPropertyPayload(data) ==
    IF ~IsObject(data.root) THEN NoNode
    ELSE IF IsObject(data.direct) THEN data.direct
    ELSE findNestedObject(
             Graph(data.root, data.children,
                   { n \in DOMAIN data.keys :
                       isLikelyPropertyPayload(data.keys[n]) }))

\* ------------------------------------------------------------ pagination
DEFAULT_PROPERTIES_PER_PAGE == 24

\* A query parameter or an attribute read with parseInt(value, 10): absent,
\* a text that does not start with a number (NaN), or a number.
NoParam == [present |-> FALSE, finite |-> FALSE, n |-> 0]

TextParam == [present |-> TRUE, finite |-> FALSE, n |-> 0]

NumParam(n) == [present |-> TRUE, finite |-> TRUE, n |-> n]

\* A search URL, reduced to its index and page parameters; the rest of the
\* URL is never changed.
SearchUrl(index, page) == [index |-> index, page |-> page]

\* What findNextPageUrl returns: the absolute form of a link of the
\* document (null when link is), or the request URL with parameters set.
Linked(link) ==
    [kind |-> "link", link |-> link, url |-> SearchUrl(NoParam, NoParam)]

Built(url) == [kind |-> "url", link |-> NoText, url |-> url]

\* A next control of the document, reduced to href, data-url and data-page
\* (or data-page-number) of the element and its closest anchor or button.
Control(href, dataUrl, dataPage) ==
    [href |-> href, dataUrl |-> dataUrl, dataPage |-> dataPage]

\* The data-page rule with the offset of the page after pageNum.
dataPageUrlUnshifted(requestUrl, dataPage) ==
    IF dataPage.finite
    THEN SearchUrl(NumParam(Max(0, dataPage.n * DEFAULT_PROPERTIES_PER_PAGE)),
                   NumParam(dataPage.n))
    ELSE requestUrl

\* if (dataPage) { ... return urlObj.toString(); }
dataPageUrl(requestUrl, dataPage) ==
    IF dataPage.finite
    THEN SearchUrl(NumParam(Max(0, (dataPage.n - 1)
                                   * DEFAULT_PROPERTIES_PER_PAGE)),
                   NumParam(dataPage.n))
    ELSE requestUrl

\* The fallback when the index parameter is not increased.
fallbackUrlSameIndex(requestUrl, currentPage) ==
    SearchUrl(requestUrl.index,
              NumParam(IF requestUrl.page.finite THEN requestUrl.page.n + 1
                       ELSE (IF currentPage # 0 THEN currentPage ELSE 1) + 1))

\* The fallback of findNextPageUrl; pageOrOne is currentPage || 1.
fallbackUrl(requestUrl, currentPage) ==
    LET currentIndex == requestUrl.index
        currentPageParam == requestUrl.page
        pageOrOne == IF currentPage # 0 THEN currentPage ELSE 1
        nextIndex ==
            IF currentIndex.finite
            THEN currentIndex.n + DEFAULT_PROPERTIES_PER_PAGE
            ELSE IF currentPageParam.finite
            THEN currentPageParam.n * DEFAULT_PROPERTIES_PER_PAGE
            ELSE Max(0, pageOrOne * DEFAULT_PROPERTIES_PER_PAGE)
        nextPage == IF currentPageParam.finite THEN currentPageParam.n + 1
                    ELSE pageOrOne + 1
    IN  SearchUrl(NumParam(nextIndex), NumParam(nextPage))

\* findNextPageUrl on the controls the selectors find, in selector order: the
\* first control with an href, a data-url or a data-page decides.
RECURSIVE findNextPageUrl(_, _, _)
findNextPageUrl(controls, requestUrl, currentPage) ==
    IF controls = <<>> THEN Built(fallbackUrl(requestUrl, currentPage))
    ELSE LET el == Head(controls)
         IN  IF Truthy(el.href) THEN Linked(ensureAbsoluteUrl(el.href))
             ELSE IF Truthy(el.dataUrl)
             THEN Linked(ensureAbsoluteUrl(el.dataUrl))
             ELSE IF el.dataPage.present
             THEN Built(dataPageUrl(requestUrl, el.dataPage))
             ELSE findNextPageUrl(Tail(controls), requestUrl, currentPage)

\* Which rule decided: "link", "data-page" or "fallback".
RECURSIVE ruleOf(_)
ruleOf(controls) ==
    IF controls = <<>> THEN "fallback"
    ELSE LET el == Head(controls)
         IN  IF Truthy(el.href) \/ Truthy(el.dataUrl) THEN "link"
             ELSE IF el.dataPage.present THEN "data-page"
             ELSE ruleOf(Tail(controls))

\* ------------------------------------------------------ identity and limits
\* Where alternative alt of the pattern of extractPropertyId matches at
\* position i of url: the position of the first digit of its group, else 0.
\*   1: \/properties\/(\d+)   2: propertyId[=:](\d+)   3: #properties[=/](\d+)
\* The pattern is case-insensitive.
IdDigitsAt(url, alt, i) ==
    LET at(k) == IF i + k <= Len(url) THEN url[i + k] ELSE "end"
        digits(k) == IF IsDigit(at(k)) THEN i + k ELSE 0
    IN  CASE alt = 1 ->
               IF at(0) = "/" /\ toLowerCase(at(1)) = "properties" /\ at(2) = "/"
               THEN digits(3) ELSE 0
          [] alt = 2 ->
               IF toLowerCase(at(0)) = "propertyid" /\ at(1) \in {"=", ":"}
               THEN digits(2) ELSE 0
          [] OTHER ->
               IF at(0) = "#" /\ toLowerCase(at(1)) = "properties"
                  /\ at(2) \in {"=", "/"}
               THEN digits(3) ELSE 0

\* extractPropertyId: url.match returns the match at the leftmost position,
\* the alternatives being tried in order at each position.
extractPropertyId(url) ==
    IF ~Truthy(url) THEN NoText
    ELSE
      LET matches == { m \in (DOMAIN url) \X (1 .. 3) :
                         IdDigitsAt(url, m[2], m[1]) # 0 }
      IN  IF matches = {} THEN NoText
          ELSE
            LET match == CHOOSE m \in matches :
                           \A k \in matches :
                             m[1] < k[1] \/ (m[1] = k[1] /\ m[2] <= k[2])
                d == IdDigitsAt(url, match[2], match[1])
            IN  SubSeq(url, d, DigitRunEnd(url, d))

\* Number(raw) || fallback, for raw values that are integers when numeric.
NumberOr(raw, fallback) ==
    LET number == ToNumber(raw)
    IN  IF AmountTruthy(number) THEN number.n * Pow10(number.e) ELSE fallback

\* The effective maxResults when the lower limit is not applied.
effectiveMaxResultsUnfloored(rawMaxResults) ==
    LET raw == IF rawMaxResults = AmountUndefined THEN Num(50)
               ELSE rawMaxResults
    IN  Min(NumberOr(raw, 50), 1000)

\* The effective maxResults: the destructuring default, then
\* Math.min(Math.max(Number(rawMaxResults) || 50, 1), 1000)
effectiveMaxResults(rawMaxResults) ==
    LET raw == IF rawMaxResults = AmountUndefined THEN Num(50)
               ELSE rawMaxResults
    IN  Min(Max(NumberOr(raw, 50), 1), 1000)

\* The effective maxPages: the destructuring default, then
\* Math.min(Math.max(Number(rawMaxPages) || 5, 1), 50)
effectiveMaxPages(rawMaxPages) ==
    LET raw == IF rawMaxPages = AmountUndefined THEN Num(5) ELSE rawMaxPages
    IN  Min(Max(NumberOr(raw, 5), 1), 50)

\* ------------------------------------------- functions applied on their own
\* The crawl variables while a function is applied on its own.
crawlVars == <<collectDetails, maxResults, maxPages, phase, queue, running,
               propertyUrls, propertiesQueued, propertiesStored, pagesProcessed,
               propertyDataBatch, dataset, OUTPUT, enqueued, appended,
               nextAdded, listEnq, handledPages, skipped>>

NoCrawl ==
    /\ collectDetails = FALSE
    /\ maxResults = 1
    /\ maxPages = 1
    /\ phase = "none"
    /\ queue = {}
    /\ running = {}
    /\ propertyUrls = {}
    /\ propertiesQueued = 0
    /\ propertiesStored = 0
    /\ pagesProcessed = 0
    /\ propertyDataBatch = <<>>
    /\ dataset = EmptyBag
    /\ OUTPUT = NoOutput
    /\ enqueued = [u \in Urls |-> 0]
    /\ appended = [u \in Urls |-> 0]
    /\ nextAdded = [p \in Pages |-> 0]
    /\ listEnq = {}
    /\ handledPages = {}
    /\ skipped = {}

Call(fn, arg) == [fn |-> fn, pc |-> "called", arg |-> arg, ret |-> <<>>]

Returned(fn) == call.fn = fn /\ call.pc = "returned"

\* All sequences over S of length at most n.
SeqsUpTo(S, n) == UNION { [1 .. k -> S] : k \in 0 .. n }

\* Longest list a partial record carries.
MaxListLen == 2

\* The partial records mergePropertyData is applied to.  floorplans and
\* keyFeatures go through the same code as images and carry the same list.
ListValues == {Absent} \cup SeqsUpTo({<<"x">>, <<"/", "x">>}, MaxListLen)

BasePrices ==
    {NoPrice, Price(Num(0), GBP, NoText), Price(AmountNull, GBP, NoText),
     Price(Num(5), GBP, <<"£", "5">>), Price(AmountNull, GBP, <<"POA">>)}

ExtraPrices ==
    {NoPrice, Price(Num(15), GBP, <<"£", "1", "5">>),
     Price(AmountNull, GBP, NoText)}

BasePartials ==
    { Partial(0, a, t, t, a, n, n, t, pr, l, l, l, NULL) :
        a \in {NoText, <<>>, <<"Acacia">>}, t \in {NoText, <<"Flat", " ", "1">>},
        n \in {NoText, <<"0">>, <<"1">>}, pr \in BasePrices, l \in ListValues }

ExtraPartials ==
    { Partial(0, a, t, t, a, n, n, t, pr, l, l, l, NULL) :
        a \in {NoText, <<"Town", " ", "House">>}, t \in {NoText, <<"H1">>},
        n \in {NoText, <<"5">>}, pr \in ExtraPrices, l \in ListValues }

MergeCalls ==
    { Call("mergePropertyData", <<base, extra>>) :
        base \in BasePartials, extra \in ExtraPartials }

ApplyMergePropertyData ==
    /\ call.fn = "mergePropertyData"
    /\ call.pc = "called"
    /\ call' = [call EXCEPT !.pc = "returned",
                            !.ret = mergePropertyData(call.arg[1], call.arg[2])]
    /\ UNCHANGED crawlVars

\* The records normalizeProperty is applied to.
RawAmounts ==
    {AmountUndefined, AmountNull, AmountNaN, AmountText, Num(0), Num(5),
     NumString(5)}

RawPrices ==
    {NoPrice} \cup
    { Price(a, c, d) : a \in RawAmounts, c \in {NoText, GBP},
                       d \in {NoText, Blank, <<"POA">>} }

RawRecords ==
    { Partial(0, a, t, NoText, pt, NoText, NoText, t, pr, im, Absent, kf, NULL) :
        a \in {NoText, <<" ", "Acacia">>, <<"Flat", " ", "1">>},
        t \in {NoText, Blank, <<" ", "Flat", "\t", " ", "1", " ">>},
        pt \in {NoText, <<>>, <<"Town", " ", "House">>}, pr \in RawPrices,
        im \in {Absent} \cup
               SeqsUpTo({NoText, <<"x">>, <<"/", "x">>, <<"/", "/", "x">>},
                        MaxListLen),
        kf \in {Absent, <<<<" ", "f1", " ">>, <<"f1">>>>} }

NormalizeCalls == { Call("normalizeProperty", r) : r \in RawRecords }

ApplyNormalizeProperty ==
    /\ call.fn = "normalizeProperty"
    /\ call.pc = "called"
    /\ call' = [call EXCEPT !.pc = "returned",
                            !.ret = normalizeProperty(call.arg)]
    /\ UNCHANGED crawlVars

\* normalizeProperty applied to the record it returned.
ApplyNormalizePropertyAgain ==
    /\ call.fn = "normalizeProperty"
    /\ call.pc = "returned"
    /\ call' = [call EXCEPT !.pc = "again",
                            !.arg = call.ret,
                            !.ret = normalizeProperty(call.ret)]
    /\ UNCHANGED crawlVars

\* The URLs extractPropertyId is applied to: up to MaxIdSegments segments,
\* each a pattern prefix, a digit or another piece.
MaxIdSegments == 4

IdSegments ==
    {<<"/", "properties", "/">>, <<"/", "Properties", "/">>,
     <<"propertyId", "=">>, <<"propertyId", ":">>,
     <<"#", "properties", "=">>, <<"#", "properties", "/">>,
     <<"1">>, <<"5">>, <<"x">>}

RECURSIVE Flatten(_)
Flatten(segments) ==
    IF segments = <<>> THEN <<>>
    ELSE Head(segments) \o Flatten(Tail(segments))

IdCalls ==
    { Call("extractPropertyId", url) :
        url \in {NoText} \cup
                { Flatten(segments) : segments \in SeqsUpTo(IdSegments,
                                                            MaxIdSegments) } }

ApplyExtractPropertyId ==
    /\ call.fn = "extractPropertyId"
    /\ call.pc = "called"
    /\ call' = [call EXCEPT !.pc = "returned",
                            !.ret = extractPropertyId(call.arg)]
    /\ UNCHANGED crawlVars

\* The raw limits of the input: integers from MaxRawOver below zero to
\* MaxRawOver above the upper limit, as numbers and as numeric strings, and
\* the values that are not numbers.
MaxRawOver == 2

RawLimits(ceiling) ==
    {AmountUndefined, AmountNull, AmountNaN, AmountText}
    \cup { Num(n) : n \in (0 - MaxRawOver) .. (ceiling + MaxRawOver) }
    \cup { NumString(n) : n \in (0 - MaxRawOver) .. (ceiling + MaxRawOver) }

LimitCalls ==
    { Call("maxResults", raw) : raw \in RawLimits(1000) }
    \cup { Call("maxPages", raw) : raw \in RawLimits(50) }

ApplyMaxResults ==
    /\ call.fn = "maxResults"
    /\ call.pc = "called"
    /\ call' = [call EXCEPT !.pc = "returned",
                            !.ret = effectiveMaxResults(call.arg)]
    /\ UNCHANGED crawlVars

ApplyMaxPages ==
    /\ call.fn = "maxPages"
    /\ call.pc = "called"
    /\ call' = [call EXCEPT !.pc = "returned",
                            !.ret = effectiveMaxPages(call.arg)]
    /\ UNCHANGED crawlVars

\* The price texts parsePrice is applied to.
MaxPriceLen == 4

PricePieces ==
    {"1", "4", "5", ".", ",", " ", "m", "M", "k", "million", "x", "£"}

PriceCalls ==
    { Call("parsePrice", text) :
        text \in {NoText} \cup SeqsUpTo(PricePieces, MaxPriceLen) }

ApplyParsePrice ==
    /\ call.fn = "parsePrice"
    /\ call.pc = "called"
    /\ call' = [call EXCEPT !.pc = "returned", !.ret = parsePrice(call.arg)]
    /\ UNCHANGED crawlVars

\* The URLs ensureAbsoluteUrl is applied to.
MaxUrlLen == 4

UrlPieces == {"http", "ftp", ":", "/", "x"}

UrlCalls ==
    { Call("ensureAbsoluteUrl", url) :
        url \in {NoText} \cup SeqsUpTo(UrlPieces, MaxUrlLen) }

ApplyEnsureAbsoluteUrl ==
    /\ call.fn = "ensureAbsoluteUrl"
    /\ call.pc = "called"
    /\ call' = [call EXCEPT !.pc = "returned",
                            !.ret = ensureAbsoluteUrl(call.arg)]
    /\ UNCHANGED crawlVars

\* The detail pages extractPropertyDetails is applied to: a linked-data
\* entry with or without images, an embedded payload with or without lists,
\* and the gallery, floorplan and key-feature elements of the HTML.
MaxPageList == 2

ImageLists == SeqsUpTo({<<"http", "a">>, <<"/", "b">>}, MaxPageList)

ListPages ==
    { PageWithLists(
          DetailPage(IF ldImage = <<<<"none">>>> THEN "none" ELSE "product",
                     <<"Product">>, NoText, NoOffer, emb, <<"H1">>, NoText,
                     NoPayload),
          IF ldImage = <<<<"none">>>> THEN Absent ELSE ldImage,
          gallery, floorplanImgs, featureItems) :
        ldImage \in {<<<<"none">>>>, Absent} \cup ImageLists,
        emb \in {NoPayload} \cup
                { PayloadWithLists(
                      Payload(TRUE, <<"EmbAddr">>, NoText, NoText,
                              NoPayloadPrice), im, fl, kf) :
                    im \in {Absent} \cup ImageLists,
                    fl \in {Absent, <<<<"http", "a">>>>},
                    kf \in {Absent, <<<<"Garden">>>>,
                            <<<<"Long">>, <<"Garden">>>>} },
        gallery \in ImageLists \ {<<>>},
        floorplanImgs \in {<<>>, <<<<"/", "b">>>>},
        featureItems \in {<<>>, <<<<"f1">>>>, <<<<"Garage">>>>,
                          <<<<"f1">>, <<"Garage">>>>} }

DetailsCalls ==
    { Call("extractPropertyDetails",
           <<page, Property(1, <<"Acacia">>, NoText, NULL)>>) :
        page \in ListPages }

ApplyExtractPropertyDetails ==
    /\ call.fn = "extractPropertyDetails"
    /\ call.pc = "called"
    /\ call' = [call EXCEPT
                  !.pc = "returned",
                  !.ret = extractPropertyDetails(call.arg[1], call.arg[2])]
    /\ UNCHANGED crawlVars

\* The graphs findNestedObject is applied to: a chain 1 -> 2 -> ... with at
\* most one more reference from a node to any value (a second parent, a
\* cycle, a self reference, or a value that is not an object), placed before
\* or after the chain reference, the predicate holding for at most two
\* nodes; and a root that is not an object.
ChainChildren(n) == IF n < MaxNodes THEN <<n + 1>> ELSE <<>>

ChainGraphs ==
    { [n \in Nodes |-> ChainChildren(n)] }
    \cup { [n \in Nodes |->
              IF n # a THEN ChainChildren(n)
              ELSE IF first THEN <<b>> \o ChainChildren(n)
              ELSE ChainChildren(n) \o <<b>>] :
             a \in Nodes, b \in 0 .. MaxNodes, first \in BOOLEAN }

Matchings == { m \in SUBSET Nodes : Cardinality(m) <= 2 }

Graphs ==
    { Graph(1, c, m) : c \in ChainGraphs, m \in Matchings }
    \cup { Graph(0, [n \in Nodes |-> <<>>], {}) }

\* findNestedObject(root, predicate) with maxDepth = 6; queue and seen are
\* its locals.
FindCalls ==
    { [fn |-> "findNestedObject", pc |-> "called", arg |-> g, ret |-> NoNode,
       queue |-> <<>>, seen |-> {}] : g \in Graphs }

\* if (!root || typeof root !== 'object') return null;
\* const queue = [{ value: root, depth: 0 }]; const seen = new WeakSet();
FindEnter ==
    /\ call.fn = "findNestedObject"
    /\ call.pc = "called"
    /\ call' = IF ~IsObject(call.arg.root)
               THEN [call EXCEPT !.pc = "returned", !.ret = NoNode]
               ELSE [call EXCEPT !.pc = "loop",
                                 !.queue = <<Entry(call.arg.root, 0)>>]
    /\ UNCHANGED crawlVars

\* One pass of while (queue.length) { ... }
FindStep ==
    /\ call.fn = "findNestedObject"
    /\ call.pc = "loop"
    /\ call.queue # <<>>
    /\ LET pass == whilePass(call.arg, call.queue, call.seen)
       IN  call' = [call EXCEPT
                      !.pc = IF pass.returned THEN "returned" ELSE "loop",
                      !.ret = pass.ret,
                      !.queue = pass.queue,
                      !.seen = pass.seen]
    /\ UNCHANGED crawlVars

\* The loop ends with the queue empty: return null.
FindExit ==
    /\ call.fn = "findNestedObject"
    /\ call.pc = "loop"
    /\ call.queue = <<>>
    /\ call' = [call EXCEPT !.pc = "returned", !.ret = NoNode]
    /\ UNCHANGED crawlVars

\* The blobs findPropertyPayload is applied to: a root object with two
\* nested objects, side by side or one inside the other, each with some of
\* the sample keys, and direct one of them or none; and a blob that is not
\* an object.
SampleKeys == {"displayAddress", "numBedrooms", "propertySubType", "title"}

Blobs ==
    { Blob(1, children, <<{"props"}, k2, k3>>, direct) :
        children \in {<<<<2, 3>>, <<>>, <<>>>>, <<<<2>>, <<3>>, <<>>>>},
        k2 \in SUBSET SampleKeys, k3 \in SUBSET SampleKeys,
        direct \in {NoNode, 2, 3} }
    \cup { Blob(0, <<>>, <<>>, NoNode) }

PayloadCalls == { Call("findPropertyPayload", data) : data \in Blobs }

ApplyFindPropertyPayload ==
    /\ call.fn = "findPropertyPayload"
    /\ call.pc = "called"
    /\ call' = [call EXCEPT !.pc = "returned",
                            !.ret = findPropertyPayload(call.arg)]
    /\ UNCHANGED crawlVars

\* The documents, request URLs and page numbers findNextPageUrl is applied
\* to: up to MaxControls next controls, page attributes and page parameters
\* up to MaxPageAttr, index parameters up to MaxPageAttr pages.
MaxControls == 2

MaxPageAttr == 3

Controls ==
    { Control(link[1], link[2], dataPage) :
        link \in {<<NoText, NoText>>, <<<<"/", "x">>, NoText>>,
                  <<NoText, <<"/", "x">>>>},
        dataPage \in {NoParam, TextParam}
                     \cup { NumParam(n) : n \in 0 .. MaxPageAttr } }

Documents == SeqsUpTo(Controls, MaxControls)

SearchUrls ==
    { SearchUrl(index, page) :
        index \in {NoParam, TextParam}
                  \cup { NumParam(k * DEFAULT_PROPERTIES_PER_PAGE) :
                           k \in 0 .. MaxPageAttr - 1 },
        page \in {NoParam, TextParam} \cup { NumParam(n) : n \in 1 .. MaxPageAttr } }

NextPageCalls ==
    { Call("findNextPageUrl", <<controls, url, currentPage>>) :
        controls \in Documents, url \in SearchUrls,
        currentPage \in 1 .. MaxPageAttr }

ApplyFindNextPageUrl ==
    /\ call.fn = "findNextPageUrl"
    /\ call.pc = "called"
    /\ call' = [call EXCEPT
                  !.pc = "returned",
                  !.ret = findNextPageUrl(call.arg[1], call.arg[2],
                                          call.arg[3])]
    /\ UNCHANGED crawlVars

\* The pagination chain: a LIST request is a URL, the pageNumber attached to
\* it and the rule that computed the URL.  The start request has any start
\* URL and pageNumber 1; the target of a link of the document is a URL of
\* the site's choosing.
MaxChain == 3

ChainRequest(url, pageNumber, rule) ==
    [fn |-> "pagination", pc |-> "request", arg |-> <<url, pageNumber>>,
     ret |-> rule]

ChainCalls == { ChainRequest(url, 1, "start") : url \in SearchUrls }

\* The pagination step of the LIST branch: nextPageNumber, findNextPageUrl,
\* addRequests.
Paginate ==
    /\ call.fn = "pagination"
    /\ call.arg[2] < MaxChain
    /\ \E controls \in Documents, target \in SearchUrls :
         LET nextPageNumber == call.arg[2] + 1
             nextUrl == findNextPageUrl(controls, call.arg[1], call.arg[2])
         IN  call' = ChainRequest(IF ruleOf(controls) = "link" THEN target
                                 ELSE nextUrl.url,
                                 nextPageNumber, ruleOf(controls))
    /\ UNCHANGED crawlVars

\* The unparsed detail pages extractPropertyDetails is applied to: up to
\* MaxScripts linked-data scripts and up to MaxScripts embedded sources,
\* with or without an h1.
MaxScripts == 2

SourcePayloads ==
    {PayloadWithLists(Payload(TRUE, <<"EmbAddr">>, NoText, NoText,
                              NoPayloadPrice),
                      <<<<"http", "a">>>>, Absent, Absent),
     Payload(TRUE, NoText, <<"EmbTitle">>, <<"Flat">>, NoPayloadPrice),
     PayloadWithLists(Payload(TRUE, NoText, NoText, NoText, NoPayloadPrice),
                      Absent, Absent, <<<<" ", "Long">>>>)}

RawPages ==
    { <<DetailPage("none", <<"Product">>, <<"LdName">>, NoOffer, NoPayload,
                   h1, NoText, NoPayload), scripts, sources>> :
        h1 \in {NoText, <<"H1">>},
        scripts \in SeqsUpTo({"malformed", "null", "other", "product"},
                             MaxScripts),
        sources \in SeqsUpTo({Source(FALSE, NoPayload)}
                             \cup { Source(TRUE, payload) :
                                      payload \in SourcePayloads },
                             MaxScripts) }

RawCalls == { Call("extractPropertyDetails(html)", raw) : raw \in RawPages }

\* extractPropertyDetails on the html of a page: the sources are parsed,
\* then the passes run.
ApplyExtractFromHtml ==
    /\ call.fn = "extractPropertyDetails(html)"
    /\ call.pc = "called"
    /\ call' = [call EXCEPT
                  !.pc = "returned",
                  !.ret = extractPropertyDetails(
                              ParsedPage(call.arg[1], call.arg[2], call.arg[3]),
                              Property(1, <<"Acacia">>, NoText, NULL))]
    /\ UNCHANGED crawlVars

\* ------------------------------------------- the single-counter revisions
\* The run of src/unnamed/part_000 (and part_001, which has the same
\* handler) in detail mode.  Its state is kept in the fields of call:
\*   pc                  "running" | "finalFlush" | "setValue" | "success"
\*                       | "catch" | "error" | "threw"
\*   queue               pending requests of the crawler
\*   running             handlers in flight, each at an await
\*   propertiesScraped   the one counter
\*   propertyUrls        dedup set
\*   propertyDataBatch   output buffer, dataset the records delivered
\*   currentPage         page counter
\* A record is the url of its listing.  The source's values are 15
\* (DATASET_BATCH_SIZE), 5 (MAX_RETRIES) and 3 (maxConcurrency).
LegacyUrls == 2

LegacyMaxResults == 3

LegacyMaxPages == 2

LegacyBatchSize == 2

LegacyRetries == 1

LegacyConcurrency == 2

LegacyCardLists == SeqsUpTo(1 .. LegacyUrls, LegacyUrls)

LegacyRequest(isPropertyDetail, n) ==
    [isPropertyDetail |-> isPropertyDetail, n |-> n, retryCount |-> 0]

LegacyHandler(req, at, properties, copy) ==
    [req |-> req, at |-> at, properties |-> properties, copy |-> copy]

LegacyRuns ==
    { [fn |-> "run", pc |-> "running",
       arg |-> [maxResults |-> r, maxPages |-> p],
       ret |-> [status |-> "none", propertiesScraped |-> 0],
       queue |-> {LegacyRequest(FALSE, 1)}, running |-> {},
       propertiesScraped |-> 0, propertyUrls |-> {},
       propertyDataBatch |-> <<>>, dataset |-> <<>>, currentPage |-> 1] :
        r \in 1 .. LegacyMaxResults, p \in 1 .. LegacyMaxPages }

LegacyCanStart(req) ==
    /\ call.fn = "run"
    /\ call.pc = "running"
    /\ req \in call.queue
    /\ Cardinality(call.running) < LegacyConcurrency

\* Handlers in flight go on while the crawler runs and, when crawler.run()
\* has rejected, while the catch block awaits Actor.setValue and while main
\* awaits Actor.exit(): the process may end before or after any of their
\* steps.
LegacyLive(h) ==
    /\ call.fn = "run"
    /\ call.pc \in {"running", "catch", "error", "threw"}
    /\ h \in call.running

\* The cards kept by the card loop: not seen before, and none once the
\* counter has reached maxResults.
RECURSIVE LegacyKept(_, _, _)
LegacyKept(cards, seen, full) ==
    IF cards = <<>> \/ full THEN <<>>
    ELSE IF Head(cards) \in seen THEN LegacyKept(Tail(cards), seen, full)
    ELSE <<Head(cards)>>
         \o LegacyKept(Tail(cards), seen \cup {Head(cards)}, full)

\* The run once handler h of a search page has left its loops with the
\* counter at `scraped`: the page counter is incremented and the next page
\* added while the counter is below maxResults and currentPage below
\* maxPages, else the handler sleeps and ends.
LegacyPagination(run, h, scraped) ==
    IF scraped < run.arg.maxResults /\ run.currentPage < run.arg.maxPages
    THEN [run EXCEPT
            !.currentPage = @ + 1,
            !.running = (@ \ {h})
                        \cup {LegacyHandler(h.req, "addNext",
                                            <<run.currentPage + 1>>, <<>>)}]
    ELSE [run EXCEPT
            !.running = (@ \ {h}) \cup {LegacyHandler(h.req, "sleep", <<>>, <<>>)}]

\* The detail branch: append, count, and start the flush when due, else
\* return.
LegacyDetailStart(req) ==
    /\ LegacyCanStart(req)
    /\ req.isPropertyDetail
    /\ LET batch == Append(call.propertyDataBatch, req.n)
       IN  call' = [call EXCEPT
                      !.queue = @ \ {req},
                      !.propertyDataBatch = batch,
                      !.propertiesScraped = @ + 1,
                      !.running = IF Len(batch) >= LegacyBatchSize
                                  THEN @ \cup {LegacyHandler(req, "flush", <<>>,
                                                            batch)}
                                  ELSE @]
    /\ UNCHANGED crawlVars

\* await Dataset.pushData([...propertyDataBatch]) resolves: the copy is
\* delivered, propertyDataBatch.length = 0, and the handler returns.
LegacyFlushResolves(h) ==
    /\ LegacyLive(h)
    /\ h.at = "flush"
    /\ call' = [call EXCEPT !.running = @ \ {h},
                            !.dataset = @ \o h.copy,
                            !.propertyDataBatch = <<>>]
    /\ UNCHANGED crawlVars

\* The search branch up to its first await: the card loop, then the first
\* addRequests of the enqueue loop or, with nothing to enqueue, pagination.
LegacyListStart(req, cards) ==
    /\ LegacyCanStart(req)
    /\ ~req.isPropertyDetail
    /\ LET full == call.propertiesScraped >= call.arg.maxResults
           properties == LegacyKept(cards, call.propertyUrls, full)
           h == LegacyHandler(req, "addDetail", properties, <<>>)
           started == [call EXCEPT
                         !.queue = @ \ {req},
                         !.propertyUrls = @ \cup { properties[i] :
                                                     i \in DOMAIN properties },
                         !.running = @ \cup {h}]
       IN  call' = IF properties # <<>> /\ ~full
                   THEN started
                   ELSE LegacyPagination(started, h, call.propertiesScraped)
    /\ UNCHANGED crawlVars

\* await crawler.addRequests of a detail request resolves: the request is
\* queued and counted; the loop goes on, or breaks when the counter has
\* reached maxResults.
LegacyAddDetailResolves(h) ==
    /\ LegacyLive(h)
    /\ h.at = "addDetail"
    /\ LET scraped == call.propertiesScraped + 1
           rest == Tail(h.properties)
           added == [call EXCEPT
                       !.queue = @ \cup {LegacyRequest(TRUE, Head(h.properties))},
                       !.propertiesScraped = scraped]
       IN  call' = IF rest # <<>> /\ scraped < call.arg.maxResults
                   THEN [added EXCEPT
                           !.running = (@ \ {h})
                                       \cup {LegacyHandler(h.req, "addDetail",
                                                           rest, <<>>)}]
                   ELSE LegacyPagination(added, h, scraped)
    /\ UNCHANGED crawlVars

\* await crawler.addRequests of the next page resolves; the handler goes on
\* to its sleep.
LegacyAddNextResolves(h) ==
    /\ LegacyLive(h)
    /\ h.at = "addNext"
    /\ call' = [call EXCEPT
                  !.queue = @ \cup {LegacyRequest(FALSE, Head(h.properties))},
                  !.running = (@ \ {h})
                              \cup {LegacyHandler(h.req, "sleep", <<>>, <<>>)}]
    /\ UNCHANGED crawlVars

\* await sleep(getRandomDelay()) is over: the handler returns.
LegacyReturns(h) ==
    /\ LegacyLive(h)
    /\ h.at = "sleep"
    /\ call' = [call EXCEPT !.running = @ \ {h}]
    /\ UNCHANGED crawlVars

\* An awaited addRequests or pushData rejects: the catch of the handler
\* rethrows, errorHandler logs, and the crawler retries the request until
\* maxRequestRetries.
LegacyAwaitRejects(h) ==
    /\ LegacyLive(h)
    /\ h.at \in {"flush", "addDetail", "addNext"}
    /\ call' = [call EXCEPT
                  !.running = @ \ {h},
                  !.queue = IF h.req.retryCount < LegacyRetries
                            THEN @ \cup {[h.req EXCEPT !.retryCount = @ + 1]}
                            ELSE @]
    /\ UNCHANGED crawlVars

\* crawler.run() resolves: the final batch is handed to pushData or, with
\* an empty buffer, the summary to Actor.setValue.
LegacyRunResolves ==
    /\ call.fn = "run"
    /\ call.pc = "running"
    /\ call.queue = {}
    /\ call.running = {}
    /\ call' = [call EXCEPT
                  !.pc = IF Len(call.propertyDataBatch) > 0
                         THEN "finalFlush" ELSE "setValue"]
    /\ UNCHANGED crawlVars

\* The final pushData resolves (the buffer is not emptied) or rejects.
LegacyFinalFlush(resolves) ==
    /\ call.fn = "run"
    /\ call.pc = "finalFlush"
    /\ call' = IF resolves
               THEN [call EXCEPT !.pc = "setValue",
                                 !.dataset = @ \o call.propertyDataBatch]
               ELSE [call EXCEPT !.pc = "catch"]
    /\ UNCHANGED crawlVars

\* Actor.setValue of the success summary resolves or rejects.
LegacySetValue(resolves) ==
    /\ call.fn = "run"
    /\ call.pc = "setValue"
    /\ call' = IF resolves
               THEN [call EXCEPT
                       !.pc = "success",
                       !.ret = [status |-> "success",
                                propertiesScraped |-> call.propertiesScraped]]
               ELSE [call EXCEPT !.pc = "catch"]
    /\ UNCHANGED crawlVars

\* crawler.run() rejects: on to the catch block; handlers in flight go on.
LegacyRunRejects ==
    /\ call.fn = "run"
    /\ call.pc = "running"
    /\ call' = [call EXCEPT !.pc = "catch"]
    /\ UNCHANGED crawlVars

\* Actor.setValue of the catch block resolves, and the error summary is
\* written, or rejects, and none is.
LegacyCatchSetValue(resolves) ==
    /\ call.fn = "run"
    /\ call.pc = "catch"
    /\ call' = IF resolves
               THEN [call EXCEPT
                       !.pc = "error",
                       !.ret = [status |-> "error", propertiesScraped |-> 0]]
               ELSE [call EXCEPT !.pc = "threw"]
    /\ UNCHANGED crawlVars

\* One specification per function: the crawl is idle, the function is
\* applied to one of its inputs.
MergeInit == NoCrawl /\ call \in MergeCalls

MergeSpec == MergeInit /\ [][ApplyMergePropertyData]_vars

NormalizeInit == NoCrawl /\ call \in NormalizeCalls

NormalizeNext ==
    \/ ApplyNormalizeProperty
    \/ ApplyNormalizePropertyAgain

NormalizeSpec == NormalizeInit /\ [][NormalizeNext]_vars

IdInit == NoCrawl /\ call \in IdCalls

IdSpec == IdInit /\ [][ApplyExtractPropertyId]_vars

LimitInit == NoCrawl /\ call \in LimitCalls

LimitNext ==
    \/ ApplyMaxResults
    \/ ApplyMaxPages

LimitSpec == LimitInit /\ [][LimitNext]_vars

PriceInit == NoCrawl /\ call \in PriceCalls

PriceSpec == PriceInit /\ [][ApplyParsePrice]_vars

UrlInit == NoCrawl /\ call \in UrlCalls

UrlSpec == UrlInit /\ [][ApplyEnsureAbsoluteUrl]_vars

DetailsInit == NoCrawl /\ call \in DetailsCalls

DetailsSpec == DetailsInit /\ [][ApplyExtractPropertyDetails]_vars

FindInit == NoCrawl /\ call \in FindCalls

FindNext ==
    \/ FindEnter
    \/ FindStep
    \/ FindExit

\* The search is synchronous code: it runs until it returns.
FindSpec == FindInit /\ [][FindNext]_vars /\ WF_vars(FindNext)

PayloadInit == NoCrawl /\ call \in PayloadCalls

PayloadSpec == PayloadInit /\ [][ApplyFindPropertyPayload]_vars

NextPageInit == NoCrawl /\ call \in NextPageCalls

NextPageSpec == NextPageInit /\ [][ApplyFindNextPageUrl]_vars

ChainInit == NoCrawl /\ call \in ChainCalls

ChainSpec == ChainInit /\ [][Paginate]_vars

RawInit == NoCrawl /\ call \in RawCalls

RawSpec == RawInit /\ [][ApplyExtractFromHtml]_vars

LegacyInit == NoCrawl /\ call \in LegacyRuns

LegacyNext ==
    \/ \E req \in call.queue : LegacyDetailStart(req)
    \/ \E h \in call.running : LegacyFlushResolves(h)
    \/ \E req \in call.queue, cards \in LegacyCardLists :
         LegacyListStart(req, cards)
    \/ \E h \in call.running : LegacyAddDetailResolves(h)
    \/ \E h \in call.running : LegacyAddNextResolves(h)
    \/ \E h \in call.running : LegacyReturns(h)
    \/ \E h \in call.running : LegacyAwaitRejects(h)
    \/ LegacyRunResolves
    \/ \E resolves \in BOOLEAN : LegacyFinalFlush(resolves)
    \/ \E resolves \in BOOLEAN : LegacySetValue(resolves)
    \/ LegacyRunRejects
    \/ \E resolves \in BOOLEAN : LegacyCatchSetValue(resolves)

LegacySpec == LegacyInit /\ [][LegacyNext]_vars

\* ------------------------------------------------- properties of functions
ScalarFields ==
    {"address", "title", "description", "propertyType", "bedrooms",
     "bathrooms", "agent"}

ListFields == {"images", "floorplans", "keyFeatures"}

Populated(v) == v # NoText /\ v # <<>>

ListOf(l) == IF l = Absent THEN <<>> ELSE l

\* The items of a list in first-seen order, each once.
RECURSIVE FirstSeen(_, _)
FirstSeen(items, kept) ==
    IF items = <<>> THEN kept
    ELSE IF \E i \in 1 .. Len(kept) : kept[i] = Head(items)
    THEN FirstSeen(Tail(items), kept)
    ELSE FirstSeen(Tail(items), Append(kept, Head(items)))

\* C11: mergePropertyData(A, B) keeps every scalar field and the price that
\* is populated in A, takes a field from B only when it is unset in A, and
\* makes images, floorplans and keyFeatures the de-duplicated concatenation
\* of A's list and B's list in first-seen order.
C11_MergeFirstWriterWins ==
    Returned("mergePropertyData") =>
        LET A == call.arg[1]
            B == call.arg[2]
            M == call.ret
        IN  /\ \A k \in ScalarFields :
                 IF Populated(A[k]) THEN M[k] = A[k] ELSE M[k] \in {A[k], B[k]}
            /\ IF A.price.object THEN M.price = A.price
               ELSE M.price = B.price
            /\ \A k \in ListFields :
                 ListOf(M[k]) = FirstSeen(ListOf(A[k]) \o ListOf(B[k]), <<>>)

\* C12: normalizeProperty applied to a normalized record returns that
\* record, field by field.
C12_NormalizeIdempotent ==
    call.fn = "normalizeProperty" /\ call.pc = "again" => call.ret = call.arg

\* The digits captured by the occurrences of alternative alt in url.
IdCaptures(url, alt) ==
    { SubSeq(url, IdDigitsAt(url, alt, i),
             DigitRunEnd(url, IdDigitsAt(url, alt, i))) :
        i \in { j \in DOMAIN url : IdDigitsAt(url, alt, j) # 0 } }

\* C15: extractPropertyId returns the digits captured by /properties/<digits>
\* if that pattern occurs anywhere in the URL, otherwise those of
\* propertyId=<digits>, otherwise those of #properties/<digits>, wherever
\* the patterns occur; it returns null when none occurs.
C15_IdPriorityOrder ==
    Returned("extractPropertyId") =>
        LET url == call.arg
        IN  IF IdCaptures(url, 1) # {} THEN call.ret \in IdCaptures(url, 1)
            ELSE IF IdCaptures(url, 2) # {} THEN call.ret \in IdCaptures(url, 2)
            ELSE IF IdCaptures(url, 3) # {} THEN call.ret \in IdCaptures(url, 3)
            ELSE call.ret = NoText

\* C16: for every raw value the effective maxResults is in 1..1000 and the
\* effective maxPages is in 1..50, and a raw value inside the range, given
\* as a number or as a numeric string, is the effective value.
C16_LimitsInRange ==
    /\ Returned("maxResults") =>
         /\ call.ret \in 1 .. 1000
         /\ \A n \in 1 .. 1000 :
              call.arg \in {Num(n), NumString(n)} => call.ret = n
    /\ Returned("maxPages") =>
         /\ call.ret \in 1 .. 50
         /\ \A n \in 1 .. 50 :
              call.arg \in {Num(n), NumString(n)} => call.ret = n

\* A negative numeric string has been raised to 1, and a number above the
\* upper limit of maxPages lowered to 50.
C16_Witness ==
    \/ Returned("maxResults") /\ call.arg = NumString(0 - 1) /\ call.ret = 1
    \/ Returned("maxPages") /\ call.arg = Num(51) /\ call.ret = 50

\* The text contains a number followed, after optional white space, by the
\* standalone letter unit.
NumberFollowedBy(text, unit) ==
    \E i \in DOMAIN text :
        /\ IsDigit(text[i])
        /\ LET s == SkipSpaces(text, NumberEnd(text, i) + 1)
           IN  /\ s <= Len(text)
               /\ toLowerCase(text[s]) = unit
               /\ s = Len(text) \/ ~IsWord(text[s + 1])

\* C17: with n the first numeric token of the text without its thousands
\* separators, parsePrice returns the amount n x 1,000,000 when the text
\* contains "million" or a number followed by a standalone m, else n x 1,000
\* when it contains a number followed by a standalone k, else n; it returns
\* null when the text has no numeric token; the currency is GBP.  The
\* product is the number the claim names: n with its decimal point moved,
\* as a literal writes it.
C17_PriceMultiplier ==
    Returned("parsePrice") =>
        LET text == IF call.arg = NoText THEN <<>> ELSE removeCommas(call.arg)
            digits == { i \in DOMAIN text : IsDigit(text[i]) }
        IN  IF digits = {} THEN call.ret = NoPrice
            ELSE
              LET first == CHOOSE i \in digits : \A j \in digits : i <= j
                  n == parseFloat(SubSeq(text, first, NumberEnd(text, first)))
                  million == \E i \in DOMAIN text : text[i] = "million"
                  k == IF million \/ NumberFollowedBy(text, "m") THEN 6
                       ELSE IF NumberFollowedBy(text, "k") THEN 3
                       ELSE 0
              IN  /\ call.ret.object
                  /\ call.ret.amount = Decimal(n.n, n.e + k)
                  /\ call.ret.currency = GBP

\* The URL starts with a scheme: letters, then a colon.
HasScheme(url) ==
    \E k \in 1 .. Len(url) - 1 :
        /\ \A j \in 1 .. k : IsWord(url[j])
        /\ url[k + 1] = ":"

\* C18: ensureAbsoluteUrl returns null for a null or empty input, the input
\* itself when it has a scheme, whatever the scheme, the input prefixed with
\* "https:" when it starts with "//", and otherwise the input prefixed with
\* the base origin, with exactly one "/" between them.
C18_EnsureAbsoluteUrl ==
    Returned("ensureAbsoluteUrl") =>
        LET url == call.arg
        IN  call.ret =
              IF url \in {NoText, <<>>} THEN NoText
              ELSE IF HasScheme(url) THEN url
              ELSE IF Len(url) >= 2 /\ url[1] = "/" /\ url[2] = "/"
              THEN <<"https", ":">> \o url
              ELSE IF url[1] = "/" THEN BASE_URL \o url
              ELSE BASE_URL \o <<"/">> \o url

\* ------------------------------------------------- properties of blocking
\* C27: the handler of a blocked response, from its start to the throw
\* that makes the crawler retry the request, changes none of the dedup set,
\* propertiesQueued, propertiesStored, pagesProcessed, the output buffer and
\* the sink, and nothing of the request queue: its own request is taken
\* from the queue when it starts.
C27_BlockedLeavesState ==
    [][/\ \A req \in queue :
            HandleBlocked(req) =>
              /\ UNCHANGED <<propertyUrls, propertiesQueued, propertiesStored,
                             pagesProcessed, propertyDataBatch, dataset>>
              /\ queue' = queue \ {req}
       /\ \A h \in running :
            BlockedThrows(h) =>
              UNCHANGED <<propertyUrls, propertiesQueued, propertiesStored,
                          pagesProcessed, propertyDataBatch, dataset, queue>>]_vars

\* The start request is waiting for its retry after a blocked response, and
\* nothing has been handled.
C27_Witness ==
    /\ phase = "running"
    /\ \E req \in queue : req.retryCount > 0 /\ req.label = "LIST"
    /\ handledPages = {}
    /\ propertyUrls = {}
    /\ running = {}

\* C29: whenever no search-page handler is in flight, every URL of the dedup
\* set has been enqueued for a detail fetch (detail mode: propertiesQueued
\* is the size of the set) or stored (basic mode: propertiesStored is the
\* size of the set), also after a search-page handler failed and was
\* retried.
C29_NoListingSwallowed ==
    (\A h \in running : h.req.label # "LIST") =>
        IF collectDetails
        THEN propertiesQueued = Cardinality(propertyUrls)
        ELSE propertiesStored = Cardinality(propertyUrls)

\* C28: in the single-counter revisions, in detail mode, the summary of a
\* successful run reports as propertiesScraped the number of records
\* delivered to the sink.
C28_SingleCounterCountsOnce ==
    call.fn = "run" /\ call.pc = "success" =>
        call.ret.propertiesScraped = Len(call.dataset)

\* ---------------------------------------------- properties of the search
\* The nodes reachable from the root by at most k references.
RECURSIVE Within(_, _)
Within(graph, k) ==
    IF ~IsObject(graph.root) THEN {}
    ELSE IF k = 0 THEN {graph.root}
    ELSE LET near == Within(graph, k - 1)
         IN  near \cup { v \in Nodes :
                           \E u \in near :
                             \E i \in DOMAIN graph.children[u] :
                               graph.children[u][i] = v }

\* The matching nodes within depth k of the root.
MatchingWithin(graph, k) == Within(graph, k) \cap graph.matching

\* C22: findNestedObject terminates; it returns null exactly when no node
\* within depth 6 of the root satisfies the predicate, and otherwise a node
\* that satisfies it and whose depth is minimal among such nodes.
C22_BoundedBreadthFirst ==
    /\ <>(call.pc = "returned")
    /\ [](Returned("findNestedObject") =>
            LET graph == call.arg
            IN  IF MatchingWithin(graph, 6) = {} THEN call.ret = NoNode
                ELSE \E k \in 0 .. 6 :
                       /\ call.ret \in MatchingWithin(graph, k)
                       /\ k > 0 => MatchingWithin(graph, k - 1) = {})

\* A matching node at depth 6 has been returned through a graph with a
\* cycle, and null for a graph whose only matching node is at depth 7.
C22_Witness ==
    /\ Returned("findNestedObject")
    /\ \/ /\ call.ret = 7
          /\ call.arg.children[3] = <<4, 1>>
       \/ /\ call.ret = NoNode
          /\ call.arg.matching = {8}
          /\ MatchingWithin(call.arg, 7) = {8}

\* C23: the node findPropertyPayload returns for a blob exposes an
\* address-like key and at least one of a bedroom-count-like, a
\* property-type-like or a price-like key.
C23_PayloadMatchesSignature ==
    Returned("findPropertyPayload") /\ call.ret # NoNode =>
        isLikelyPropertyPayload(call.arg.keys[call.ret])

\* ------------------------------------------------ properties of pagination
\* The controls before the first one that carries an href, a data-url or a
\* data-page carry none of them; Deciding is that control, if any.
Carries(el) == Truthy(el.href) \/ Truthy(el.dataUrl) \/ el.dataPage.present

Deciding(controls) ==
    { i \in DOMAIN controls :
        Carries(controls[i]) /\ \A j \in 1 .. i - 1 : ~Carries(controls[j]) }

\* The matched control has no href and no data-url and a numeric page
\* attribute.
ByDataPage(controls) ==
    \E i \in Deciding(controls) :
        /\ ~Truthy(controls[i].href)
        /\ ~Truthy(controls[i].dataUrl)
        /\ controls[i].dataPage.finite

DataPageOf(controls) ==
    controls[CHOOSE i \in Deciding(controls) : TRUE].dataPage.n

\* C24 as stated: with a numeric page attribute n and no href and no
\* data-url on the matched control, findNextPageUrl returns the request URL
\* with index set to n x 24.
C24_DataPageOffsetAsStated ==
    Returned("findNextPageUrl") /\ ByDataPage(call.arg[1]) =>
        call.ret.url.index = NumParam(DataPageOf(call.arg[1]) * 24)

\* C24: with a numeric page attribute n and no href and no data-url on the
\* matched control, findNextPageUrl returns the request URL with page set to
\* n and index set to (n - 1) x 24, and to 0 when that is negative.
C24_DataPageOffset ==
    Returned("findNextPageUrl") /\ ByDataPage(call.arg[1]) =>
        LET n == DataPageOf(call.arg[1])
        IN  /\ call.ret.kind = "url"
            /\ call.ret.url.page = NumParam(n)
            /\ call.ret.url.index =
                 NumParam(IF n >= 1 THEN (n - 1) * 24 ELSE 0)

\* The page attribute 3 of a second control has given index 48 and page 3.
C24_Witness ==
    /\ Returned("findNextPageUrl")
    /\ Len(call.arg[1]) = 2
    /\ ByDataPage(call.arg[1])
    /\ DataPageOf(call.arg[1]) = 3
    /\ call.ret.url = SearchUrl(NumParam(48), NumParam(3))

\* C25: findNextPageUrl never returns null; when no control yields a target
\* it returns the request URL with index increased by 24, if the request
\* URL has a numeric index, and with page increased by 1 (from the page
\* parameter, or from the current page number without one).
C25_FallbackAlwaysNext ==
    Returned("findNextPageUrl") =>
        LET url == call.arg[2]
        IN  /\ call.ret.kind = "link" => Truthy(call.ret.link)
            /\ Deciding(call.arg[1]) = {} =>
                 /\ call.ret.kind = "url"
                 /\ url.index.finite =>
                      call.ret.url.index = NumParam(url.index.n + 24)
                 /\ call.ret.url.page =
                      NumParam(IF url.page.finite THEN url.page.n + 1
                               ELSE call.arg[3] + 1)

\* The fallback has turned index 24, page 2 into index 48, page 3 for a
\* document whose only control carries nothing.
C25_Witness ==
    /\ Returned("findNextPageUrl")
    /\ Len(call.arg[1]) = 1
    /\ Deciding(call.arg[1]) = {}
    /\ call.arg[2] = SearchUrl(NumParam(24), NumParam(2))
    /\ call.ret = Built(SearchUrl(NumParam(48), NumParam(3)))

\* C30: a search-results request whose URL the data-page rule or the
\* fallback rule computed has index = (page - 1) x 24 and page = the
\* pageNumber attached to the request.
C30_OffsetPageConsistent ==
    call.fn = "pagination" /\ call.ret \in {"data-page", "fallback"} =>
        LET url == call.arg[1]
        IN  /\ url.page = NumParam(call.arg[2])
            /\ url.index = NumParam((call.arg[2] - 1) * 24)

\* ------------------------------------------ properties of the detail passes
Items(l) == { l[i] : i \in DOMAIN l }

\* The values every pass over the page surfaces for a list-valued field, as
\* absolute URLs (images, floorplans) or cleaned texts (keyFeatures).
Surfaced(page, k) ==
    LET fromLd == IF k = "images" /\ page.ld = "product"
                  THEN Items(ListOf(page.ldImage)) ELSE {}
        fromEmb == IF ~page.emb.found THEN {}
                   ELSE IF k = "keyFeatures"
                   THEN { f \in Items(ListOf(page.emb[k])) :
                            IsPayloadFeature(cleanText(f)) }
                   ELSE Items(ListOf(page.emb[k]))
        fromHtml == CASE k = "images" -> Items(page.gallery)
                      [] k = "floorplans" -> Items(page.floorplanImgs)
                      [] OTHER -> { f \in Items(page.featureItems) :
                                      IsFeature(cleanText(f)) }
    IN  fromLd \cup fromEmb \cup fromHtml

Surface(k, v) ==
    IF k = "keyFeatures" THEN cleanText(v) ELSE ensureAbsoluteUrl(cleanText(v))

\* C21: for images, floorplans and keyFeatures the record returned by
\* extractPropertyDetails holds, each once, exactly the values that the
\* linked-data pass, the embedded payload and the HTML containers surface.
C21_ListsUnionOfPasses ==
    Returned("extractPropertyDetails") =>
        \A k \in ListFields :
            LET l == ListOf(call.ret[k])
            IN  /\ { Surface(k, v) : v \in Items(l) }
                     = { Surface(k, v) : v \in Surfaced(call.arg[1], k) }
                /\ \A i, j \in DOMAIN l : l[i] = l[j] => i = j

\* The sources of a page that parse, each kept as it is.
WellFormed(scripts) ==
    LET kept == { i \in DOMAIN scripts : scripts[i] # "malformed" }
        nth(k) == CHOOSE i \in kept : Cardinality({ j \in kept : j <= i }) = k
    IN  [k \in 1 .. Cardinality(kept) |-> scripts[nth(k)]]

WellFormedSources(sources) ==
    LET kept == { i \in DOMAIN sources : sources[i].parses }
        nth(k) == CHOOSE i \in kept : Cardinality({ j \in kept : j <= i }) = k
    IN  [k \in 1 .. Cardinality(kept) |-> sources[nth(k)].payload]

HasNumericToken(text) == \E i \in DOMAIN text : IsDigit(text[i])

\* The amounts the structured sources of listing u carry.
SourceAmounts(u) ==
    LET page == DetailPageOf(u)
    IN  (IF page.ld = "product" /\ page.ldOffer.present
         THEN {page.ldOffer.price} ELSE {})
        \cup { p.price.amount :
                 p \in { q \in {page.emb, page.api} :
                           q.found /\ q.price.kind \in {"object", "number"} } }

\* No source of listing u states an amount, and one states a price of zero.
StatesNoAmount(u) ==
    /\ ~HasNumericToken(CardOf(u).priceText)
    /\ \A a \in SourceAmounts(u) : a.t \in {"null", "undefined"}

StatesZero(u) == \E a \in SourceAmounts(u) : ToNumber(a) = Num(0) /\ a.t # "null"

\* C13: a delivered price has a number or null as amount, never NaN; it is
\* null for a listing whose price text has no numeric token and whose
\* structured prices carry no amount; it is 0 only when a source stated zero.
C13_UnknownPriceIsNull ==
    \A r \in BagToSet(dataset) :
        r.price.object =>
            /\ r.price.amount.t \in {"number", "null"}
            /\ StatesNoAmount(r.url) => r.price.amount = AmountNull
            /\ r.price.amount = Num(0) => StatesZero(r.url)

\* The closed taxonomy: the values of PROPERTY_TYPE_PATTERNS.
PropertyTypes ==
    { PROPERTY_TYPE_PATTERNS[i].value : i \in DOMAIN PROPERTY_TYPE_PATTERNS }

\* C14: every delivered record has propertyType null or a value of
\* PROPERTY_TYPE_PATTERNS.
C14_PropertyTypeInTaxonomy ==
    \A r \in BagToSet(dataset) :
        r.propertyType = NoText \/ r.propertyType \in PropertyTypes

ExtractionMethods ==
    {"card-only", "json-ld", "embedded-json", "html-parse", "json-ld+embedded",
     "api-fallback", "failed"}

\* C19: every delivered record, in detail mode and in basic mode, carries an
\* extractionMethod of the enum.
C19_ExtractionMethodInEnum ==
    \A r \in BagToSet(dataset) : r.extractionMethod \in ExtractionMethods

\* C20: in detail mode a scalar field (address, propertyType, price) that
\* the card-level record populated is the delivered record's, up to the
\* final normalization; in particular the card's price after a linked-data
\* block with offers.
C20_EarlierPassKept ==
    collectDetails =>
        \A r \in BagToSet(dataset) :
            LET basicInfo == CardRecords[r.url]
            IN  /\ \A k \in {"address", "propertyType"} :
                     Populated(basicInfo[k]) => r[k] = cleanText(basicInfo[k])
                /\ basicInfo.price.object =>
                     r.price = normalizePrice(basicInfo.price)

====
